---- MODULE Spec2Model ----
(***************************************************************************)
(* A model of the file-cleanup engine of file-cleanup-cli.                 *)
(*                                                                         *)
(* src/cleaner.js holds two bodies of the cleaner module: the move+zip     *)
(* variant (lines 1-633: synchronous walk, fs.moveSync, archive step) and  *)
(* the verified-copy variant (lines 641-1280: copy, size and MD5 check,    *)
(* then removal of the source; optional direct deletion).  The variable    *)
(* `variant` says which body runs; it is fixed for a run.                  *)
(*                                                                         *)
(* Strings are sequences of one-character strings, so that toLowerCase,    *)
(* startsWith, path.extname and the `${base}_${n}${ext}` template are      *)
(* computed as the code computes them.  A path is a sequence of            *)
(* components; the first component of a source path is the configured      *)
(* folder string, the components of a quarantine path are relative to the  *)
(* move target directory.                                                  *)
(***************************************************************************)
EXTENDS Integers, Sequences, FiniteSets, TLC

VARIABLES
    variant,        \* "zip" (cleaner.js 1-633) or "verify" (cleaner.js 641-1280)
    config,         \* the module-level config object (config.yaml)
    folders,        \* executeCleanup argument: configured folder strings
    retentionDays,  \* executeCleanup argument
    forceDelete,    \* executeCleanup argument (verify variant only)
    now,            \* Date.now() of the run
    fs,             \* the source trees: path -> [kind, content, birthtimeMs, mtimeMs, entries]
    trash,          \* files under the move target directory: relative path -> [content, entries]
    trashDirs,      \* directories under the move target directory (relative paths)
    pc,             \* position of the run
    folderIdx,      \* executeCleanup: index of the folder loop
    stack,          \* the cleanFolder activations, outermost first
    report,         \* executeCleanup accumulators and return value
    cur,            \* the file path the walker is acting on
    mv,             \* locals of the moveFile activation
    moveResult,     \* value returned by moveFile / deleteFile to the walker
    faults,         \* number of I/O failures the environment has injected so far
    hist,           \* history (ghost) record: what was probed, skipped, failed, verified
    cli,            \* the command line run: parsed params, the prompt's answer, exit code
    cfgFile,        \* config.yaml: its top-level sections, in file order
    cm,             \* the configuration manager run: variant, first file content, last call
    clf,            \* the last call of a classifier function: arguments and result
    cz              \* locals of the compressDirectory activation

vars == <<variant, config, folders, retentionDays, forceDelete, now, fs, trash,
          trashDirs, pc, folderIdx, stack, report, cur, mv, moveResult, faults, hist,
          cli, cfgFile, cm, clf, cz>>

\* The environment injects at most this many I/O failures in one run.
MaxFaults == 2

(***************************************************************************)
(* Strings                                                                 *)
(***************************************************************************)
UpperChars == <<"A","B","C","D","E","F","G","H","I","J","K","L","M",
                "N","O","P","Q","R","S","T","U","V","W","X","Y","Z">>
LowerChars == <<"a","b","c","d","e","f","g","h","i","j","k","l","m",
                "n","o","p","q","r","s","t","u","v","w","x","y","z">>

LowerChar(c) ==
    IF \E i \in 1..26 : UpperChars[i] = c
    THEN LowerChars[CHOOSE i \in 1..26 : UpperChars[i] = c]
    ELSE c

\* String.prototype.toLowerCase
toLowerCase(s) == [i \in 1..Len(s) |-> LowerChar(s[i])]

\* String.prototype.startsWith
startsWith(s, p) == Len(p) <= Len(s) /\ SubSeq(s, 1, Len(p)) = p

DigitChars == <<"0","1","2","3","4","5","6","7","8","9">>

\* Number to decimal string, as the template literal `${counter}` renders it
RECURSIVE toString(_)
toString(n) ==
    IF n < 10 THEN <<DigitChars[n + 1]>>
    ELSE toString(n \div 10) \o <<DigitChars[(n % 10) + 1]>>

\* Array.prototype.includes on a list of strings
includes(list, x) == \E i \in 1..Len(list) : list[i] = x

\* path.extname of a name without separators (Node's scan from the end):
\* the text from the last dot, unless the name has no dot, the last dot is
\* the first character, or the name is exactly "..".
extname(name) ==
    LET dots == {i \in 1..Len(name) : name[i] = "."} IN
    IF dots = {} THEN <<>>
    ELSE LET startDot == CHOOSE i \in dots : \A j \in dots : j <= i
             preDotState ==
                 IF \E j \in 1..(startDot - 1) : name[j] # "." THEN -1
                 ELSE IF startDot > 1 THEN 1 ELSE 0
         IN  IF preDotState = 0 THEN <<>>
             ELSE IF preDotState = 1 /\ startDot = Len(name) /\ startDot = 2 THEN <<>>
             ELSE SubSeq(name, startDot, Len(name))

\* path.basename(name, ext) of a name without separators
basename(name, ext) ==
    IF ext # <<>> /\ ext # name /\ Len(ext) <= Len(name)
       /\ SubSeq(name, Len(name) - Len(ext) + 1, Len(name)) = ext
    THEN SubSeq(name, 1, Len(name) - Len(ext))
    ELSE name

(***************************************************************************)
(* Paths                                                                   *)
(***************************************************************************)
\* path.join(dir, name) on component sequences
join(dir, name) == Append(dir, name)

\* path.dirname
dirname(p) == SubSeq(p, 1, Len(p) - 1)

\* path.basename(p)
lastName(p) == p[Len(p)]

\* path.relative(baseDir, filePath) for a filePath below baseDir
relative(baseDir, filePath) == SubSeq(filePath, Len(baseDir) + 1, Len(filePath))

(***************************************************************************)
(* The inputs of a run: names, folders, trees, configuration               *)
(***************************************************************************)
STAR == <<"*">>
EXT_T == <<"t">>

A_T == <<"a",".","t">>
B_X == <<"b",".","x">>
P_T == <<"P",".","t">>
S_DIR == <<"s">>

R1 == <<"f",":","\\","r","1">>
R2 == <<"f",":","\\","r","2">>
R3 == <<"f",":","\\","r","3">>
WinDir == <<"c",":","\\","w","i","n","d","o","w","s">>
WinTemp == <<"C",":","\\","W","i","n","d","o","w","s","\\","T","e","m","p">>
DData == <<"d",":","\\","d","a","t","a">>
UsersBob == <<"c",":","\\","u","s","e","r","s","\\","b","o","b">>

DayMs == 24 * 60 * 60 * 1000

NoFile == [kind |-> "none", content |-> <<>>, birthtimeMs |-> 0, mtimeMs |-> 0, entries |-> <<>>]
Dir(names) == [kind |-> "dir", content |-> <<>>, birthtimeMs |-> 0, mtimeMs |-> 0, entries |-> names]
File(bytes, birth, mtime) ==
    [kind |-> "file", content |-> bytes, birthtimeMs |-> birth, mtimeMs |-> mtime, entries |-> <<>>]

\* The source trees of a run that starts at time t.  f:\r2\a.t was modified
\* exactly one day before t; f:\r1\P.t is a directory with a protected name;
\* f:\r3 and the other folders do not exist.
Tree(t) ==
    (<<R1>> :> Dir(<<A_T, S_DIR, P_T>>)) @@
    (<<R1, P_T>> :> Dir(<<A_T>>)) @@
    (<<R1, P_T, A_T>> :> File(<<6>>, 1000, 2000)) @@
    (<<R1, A_T>> :> File(<<1, 2>>, 1000, 2000)) @@
    (<<R1, S_DIR>> :> Dir(<<A_T>>)) @@
    (<<R1, S_DIR, A_T>> :> File(<<3>>, 1000, 2000)) @@
    (<<R2>> :> Dir(<<A_T, P_T, B_X>>)) @@
    (<<R2, A_T>> :> File(<<4>>, 1000, t - DayMs)) @@
    (<<R2, P_T>> :> File(<<5>>, 1000, 2000)) @@
    (<<R2, B_X>> :> File(<<>>, 1000, 2000))

FolderLists ==
    { <<R1, R2>>, <<R1, WinDir>>, <<WinTemp, R1>>, <<R2, DData>>, <<UsersBob, R2>>, <<R3, R2>> }

\* A plain file of the move target directory; an archive also lists its entries.
TrashFile(bytes) == [content |-> bytes, entries |-> {}]

\* What earlier runs may have left in the move target directory.
Trash0s == { <<>>, (<<A_T>> :> TrashFile(<<9>>)) }

Configs(v) ==
    { [allowedExtensions |-> a, protectedFiles |-> << <<"p",".","t">> >>,
       enableCompression |-> c, deleteAfterCompression |-> d] :
        a \in { <<EXT_T>>, <<STAR>> },
        c \in BOOLEAN,
        d \in (IF v = "zip" THEN BOOLEAN ELSE {FALSE}) }

(***************************************************************************)
(* File system access                                                      *)
(***************************************************************************)
\* fs.existsSync on a source path
existsSync(p) == p \in DOMAIN fs /\ fs[p].kind # "none"

\* fs.existsSync on a path of the move target directory
trashExists(p) == p \in DOMAIN trash \/ p \in trashDirs

\* fs.removeSync of a source file
removeSource(p) == [fs EXCEPT ![p] = NoFile]

\* fs.writeFileSync / the arrival of a moved file at a path of the move target directory
writeTrash(p, f) == (p :> f) @@ trash

\* fs.removeSync of a file of the move target directory
removeTrash(p) == [q \in (DOMAIN trash) \ {p} |-> trash[q]]

\* the directories fs.ensureDirSync(d) makes sure exist: d and its ancestors
dirsOf(d) == { SubSeq(d, 1, n) : n \in 0..Len(d) }

(***************************************************************************)
(* Eligibility classifier                                                  *)
(***************************************************************************)
\* isProtectedFile that compares the names as they are written
isProtectedFile_CaseSensitive(fileName) ==
    \E i \in 1..Len(config.protectedFiles) : fileName = config.protectedFiles[i]

\* cleaner.js isProtectedFile
isProtectedFile(fileName) ==
    \E i \in 1..Len(config.protectedFiles) :
        toLowerCase(fileName) = toLowerCase(config.protectedFiles[i])

\* cleaner.js isAllowedExtension
isAllowedExtension(fileName) ==
    IF includes(config.allowedExtensions, STAR) THEN TRUE
    ELSE LET ext == extname(fileName) IN
         includes(config.allowedExtensions, SubSeq(ext, 2, Len(ext)))

Max(a, b) == IF a >= b THEN a ELSE b

\* cleaner.js isExpired, after fs.statSync returned stats
isExpired(stats, days) ==
    LET fileTimeMs == Max(stats.birthtimeMs, stats.mtimeMs)
        fileAgeMs == now - fileTimeMs
        retentionMs == days * 24 * 60 * 60 * 1000
    IN  IF days = 0 THEN TRUE ELSE fileAgeMs > retentionMs

(***************************************************************************)
(* Initial state                                                           *)
(***************************************************************************)
\* compressionResult = null: the archive step was not invoked
NullCompression == [invoked |-> FALSE, success |-> FALSE, fileCount |-> 0, outputPath |-> <<>>]

EmptyReport ==
    [totalFiles |-> 0, movedFiles |-> 0, skippedFiles |-> 0,
     movedFilesList |-> <<>>, compression |-> NullCompression]

NoMove ==
    [filePath |-> <<>>, sourceContent |-> <<>>, size |-> 0, uniqueTargetPath |-> <<>>,
     sourceHash |-> <<>>, entryContent |-> <<>>]

\* null, where a path is expected
Null == <<>>

NoResult == [success |-> FALSE, targetPath |-> Null, fileName |-> <<>>]

EmptyHist ==
    [trash0 |-> <<>>,        \* the move target directory before the run
     examined |-> {},        \* entries taken from a listing (totalFiles++)
     probed |-> {},          \* files isFileInUse was called on
     notInUse |-> {},        \* files isFileInUse returned false for
     skipped |-> {},         \* entries counted in skippedFiles
     failed |-> {},          \* entries whose processing hit an I/O failure
     unlistable |-> {},      \* folders whose listing threw
     verified |-> {},        \* target paths whose size and checksum were verified
     cleanupFailed |-> {}]   \* target paths whose removal threw

\* parseArguments: the result object before the loop
InitialParams(days) == [retentionDays |-> days, action |-> "help", force |-> FALSE, yes |-> FALSE]

\* no command line: executeCleanup is called directly
NoCli ==
    [params |-> InitialParams(0), asked |-> FALSE, answered |-> FALSE, answer |-> Null, called |-> FALSE,
     exitCode |-> -1]

\* no config.yaml
NoConfigFile == [exists |-> FALSE, sections |-> <<>>]

\* no call of the configuration manager yet
NoCall == [op |-> "none", arg |-> <<>>, arg2 |-> <<>>, before |-> <<>>, success |-> FALSE]

NoCm == [variant |-> "splice", file0 |-> NoConfigFile, last |-> NoCall]

\* no classifier function called yet
NoClassifierCall ==
    [variant |-> "current", fn |-> "none", fileName |-> <<>>, statThrows |-> FALSE, birthtimeMs |-> 0,
     mtimeMs |-> 0, days |-> 0, opened |-> FALSE, errorCode |-> "", result |-> FALSE]

\* compressDirectory is not running
NoCompress == [fileList |-> {}, pending |-> {}, written |-> FALSE, verified |-> FALSE, trashBefore |-> <<>>]

Init ==
    /\ variant \in {"zip", "verify"}
    /\ config \in Configs(variant)
    /\ folders \in FolderLists
    /\ retentionDays \in {0, 1}
    /\ forceDelete \in (IF variant = "verify" THEN BOOLEAN ELSE {FALSE})
    /\ now = 3 * DayMs
    /\ fs = Tree(now)
    /\ trash \in Trash0s
    /\ trashDirs = {<<>>}
    /\ pc = "start"
    /\ folderIdx = 1
    /\ stack = <<>>
    /\ report = EmptyReport
    /\ cur = <<>>
    /\ mv = NoMove
    /\ moveResult = NoResult
    /\ faults = 0
    /\ hist = [EmptyHist EXCEPT !.trash0 = trash]
    /\ cli = NoCli
    /\ cfgFile = NoConfigFile
    /\ cm = NoCm
    /\ clf = NoClassifierCall
    /\ cz = NoCompress

(***************************************************************************)
(* executeCleanup: the critical-path guard and the folder loop             *)
(***************************************************************************)
\* The criticalPaths literal of executeCleanup; the verified-copy variant
\* has no 'c:\\users' entry.
criticalPaths ==
    IF variant = "zip"
    THEN << <<"c",":","\\">>,
            <<"c",":","\\","w","i","n","d","o","w","s">>,
            <<"c",":","\\","s","y","s","t","e","m","3","2">>,
            <<"c",":","\\","p","r","o","g","r","a","m"," ","f","i","l","e","s">>,
            <<"c",":","\\","p","r","o","g","r","a","m"," ","f","i","l","e","s"," ","(","x","8","6",")">>,
            <<"c",":","\\","u","s","e","r","s">>,
            <<"c",":","\\","p","r","o","g","r","a","m","d","a","t","a">>,
            <<"d",":","\\">>,
            <<"e",":","\\">> >>
    ELSE << <<"c",":","\\">>,
            <<"c",":","\\","w","i","n","d","o","w","s">>,
            <<"c",":","\\","s","y","s","t","e","m","3","2">>,
            <<"c",":","\\","p","r","o","g","r","a","m"," ","f","i","l","e","s">>,
            <<"c",":","\\","p","r","o","g","r","a","m"," ","f","i","l","e","s"," ","(","x","8","6",")">>,
            <<"c",":","\\","p","r","o","g","r","a","m","d","a","t","a">>,
            <<"d",":","\\">>,
            <<"e",":","\\">> >>

\* The test of the guard's inner loop on one folder and one critical path
matchesCritical(folder, criticalPath) ==
    LET folderLower == toLowerCase(folder) IN
    folderLower = criticalPath \/ startsWith(folderLower, criticalPath \o <<"\\">>)

\* The guard throws: the allow-list holds '*' and some folder matches
guardThrows(list) ==
    /\ includes(config.allowedExtensions, STAR)
    /\ \E i \in 1..Len(list) : \E j \in 1..Len(criticalPaths) :
           matchesCritical(list[i], criticalPaths[j])

\* the guard looks at the first configured folder only
ExecuteCleanup_Guard_FirstOnly ==
    /\ pc = "start"
    /\ pc' = IF guardThrows(<<folders[1]>>) THEN "threw" ELSE "loop"
    /\ UNCHANGED <<clf, cz, cli, cfgFile, cm, variant, config, folders, retentionDays, forceDelete, now, fs, trash,
                   trashDirs, folderIdx, stack, report, cur, mv, moveResult, faults, hist>>

\* executeCleanup up to the folder loop: the guard runs over every folder first
ExecuteCleanup_Guard ==
    /\ pc = "start"
    /\ pc' = IF guardThrows(folders) THEN "threw" ELSE "loop"
    /\ UNCHANGED <<clf, cz, cli, cfgFile, cm, variant, config, folders, retentionDays, forceDelete, now, fs, trash,
                   trashDirs, folderIdx, stack, report, cur, mv, moveResult, faults, hist>>

\* A fresh cleanFolder activation
Frame(folderPath, baseDir, files) ==
    [folderPath |-> folderPath, baseDir |-> baseDir, files |-> files,
     totalFiles |-> 0, movedFiles |-> 0, skippedFiles |-> 0, movedFileList |-> <<>>]

Top == stack[Len(stack)]
SetTop(f) == [stack EXCEPT ![Len(stack)] = f]

\* executeCleanup adds a cleanFolder result to its totals
accumulate(r, res) ==
    [r EXCEPT !.totalFiles = @ + res.totalFiles,
              !.movedFiles = @ + res.movedFiles,
              !.skippedFiles = @ + res.skippedFiles,
              !.movedFilesList = @ \o res.movedFileList]

\* merge that leaves the skipped files of a subdirectory out of its parent's result
merge_DropsSkipped(f, res) ==
    [f EXCEPT !.totalFiles = @ + res.totalFiles,
              !.movedFiles = @ + res.movedFiles,
              !.movedFileList = @ \o res.movedFileList]

\* cleanFolder merges the result of a sub-folder into its own counters
merge(f, res) ==
    [f EXCEPT !.totalFiles = @ + res.totalFiles,
              !.movedFiles = @ + res.movedFiles,
              !.skippedFiles = @ + res.skippedFiles,
              !.movedFileList = @ \o res.movedFileList]

\* The folder loop calls cleanFolder(folder, retentionDays, null, forceDelete):
\* the folder is listed and its walk starts
ExecuteCleanup_WalkFolder ==
    /\ pc = "loop"
    /\ folderIdx <= Len(folders)
    /\ existsSync(<<folders[folderIdx]>>)
    /\ stack' = <<Frame(<<folders[folderIdx]>>, <<folders[folderIdx]>>,
                        fs[<<folders[folderIdx]>>].entries)>>
    /\ pc' = "walk"
    /\ UNCHANGED <<clf, cz, cli, cfgFile, cm, variant, config, folders, retentionDays, forceDelete, now, fs, trash,
                   trashDirs, folderIdx, report, cur, mv, moveResult, faults, hist>>

\* a folder that does not exist ends the run
ExecuteCleanup_MissingFolder_Stops ==
    /\ pc = "loop"
    /\ folderIdx <= Len(folders)
    /\ ~existsSync(<<folders[folderIdx]>>)
    /\ pc' = "done"
    /\ UNCHANGED <<clf, cz, cli, cfgFile, cm, variant, config, folders, retentionDays, forceDelete, now, fs, trash,
                   trashDirs, folderIdx, report, stack, cur, mv, moveResult, faults, hist>>

\* cleanFolder on a folder that does not exist returns the zero result
ExecuteCleanup_MissingFolder ==
    /\ pc = "loop"
    /\ folderIdx <= Len(folders)
    /\ ~existsSync(<<folders[folderIdx]>>)
    /\ report' = accumulate(report, Frame(<<>>, <<>>, <<>>))
    /\ folderIdx' = folderIdx + 1
    /\ UNCHANGED <<clf, cz, cli, cfgFile, cm, variant, config, folders, retentionDays, forceDelete, now, fs, trash,
                   trashDirs, pc, stack, cur, mv, moveResult, faults, hist>>

\* fs.readdirSync of a configured folder throws: the outer catch of
\* cleanFolder logs it and the zero counters are returned
ExecuteCleanup_UnlistableFolder ==
    /\ pc = "loop"
    /\ folderIdx <= Len(folders)
    /\ existsSync(<<folders[folderIdx]>>)
    /\ faults < MaxFaults
    /\ faults' = faults + 1
    /\ report' = accumulate(report, Frame(<<>>, <<>>, <<>>))
    /\ folderIdx' = folderIdx + 1
    /\ hist' = [hist EXCEPT !.unlistable = @ \cup {<<folders[folderIdx]>>}]
    /\ UNCHANGED <<clf, cz, cli, cfgFile, cm, variant, config, folders, retentionDays, forceDelete, now, fs, trash,
                   trashDirs, pc, stack, cur, mv, moveResult>>

(***************************************************************************)
(* cleanFolder: one entry of the listing                                   *)
(***************************************************************************)
EntryReady == pc = "walk" /\ stack # <<>> /\ Top.files # <<>>

file == Head(Top.files)

\* path.resolve(path.join(folderPath, file)); folder paths are absolute
filePath == join(Top.folderPath, file)

\* totalFiles++ for the entry taken from the listing
Counted == [Top EXCEPT !.files = Tail(@), !.totalFiles = @ + 1]

\* skippedFiles++ ; continue
SkipEntry ==
    /\ stack' = SetTop([Counted EXCEPT !.skippedFiles = @ + 1])
    /\ pc' = "walk"

CleanFolder_Protected ==
    /\ EntryReady
    /\ isProtectedFile(file)
    /\ SkipEntry
    /\ hist' = [hist EXCEPT !.examined = @ \cup {filePath}, !.skipped = @ \cup {filePath}]
    /\ UNCHANGED <<clf, cz, cli, cfgFile, cm, variant, config, folders, retentionDays, forceDelete, now, fs, trash,
                   trashDirs, folderIdx, report, cur, mv, moveResult, faults>>

\* fs.statSync(filePath) throws and nothing catches it inside the loop: the
\* outer catch ends the walk of the folder
CleanFolder_StatError_EndsLoop ==
    /\ EntryReady
    /\ ~isProtectedFile(file)
    /\ faults < MaxFaults
    /\ faults' = faults + 1
    /\ stack' = SetTop([Counted EXCEPT !.files = <<>>])
    /\ pc' = "walk"
    /\ hist' = [hist EXCEPT !.examined = @ \cup {filePath}, !.failed = @ \cup {filePath}]
    /\ UNCHANGED <<clf, cz, cli, cfgFile, cm, variant, config, folders, retentionDays, forceDelete, now, fs, trash,
                   trashDirs, folderIdx, report, cur, mv, moveResult>>

\* fs.statSync(filePath) throws: the inner catch counts the entry as skipped
CleanFolder_StatError ==
    /\ EntryReady
    /\ ~isProtectedFile(file)
    /\ faults < MaxFaults
    /\ faults' = faults + 1
    /\ SkipEntry
    /\ hist' = [hist EXCEPT !.examined = @ \cup {filePath}, !.skipped = @ \cup {filePath},
                            !.failed = @ \cup {filePath}]
    /\ UNCHANGED <<clf, cz, cli, cfgFile, cm, variant, config, folders, retentionDays, forceDelete, now, fs, trash,
                   trashDirs, folderIdx, report, cur, mv, moveResult>>

\* a directory: cleanFolder(filePath, retentionDays, currentBaseDir, forceDelete)
CleanFolder_Descend ==
    /\ EntryReady
    /\ ~isProtectedFile(file)
    /\ fs[filePath].kind = "dir"
    /\ stack' = Append(SetTop(Counted), Frame(filePath, Top.baseDir, fs[filePath].entries))
    /\ hist' = [hist EXCEPT !.examined = @ \cup {filePath}]
    /\ UNCHANGED <<clf, cz, cli, cfgFile, cm, variant, config, folders, retentionDays, forceDelete, now, fs, trash,
                   trashDirs, pc, folderIdx, report, cur, mv, moveResult, faults>>

\* a directory whose listing throws: the sub-call returns zero counters
CleanFolder_DescendUnlistable ==
    /\ EntryReady
    /\ ~isProtectedFile(file)
    /\ fs[filePath].kind = "dir"
    /\ faults < MaxFaults
    /\ faults' = faults + 1
    /\ stack' = SetTop(merge(Counted, Frame(<<>>, <<>>, <<>>)))
    /\ hist' = [hist EXCEPT !.examined = @ \cup {filePath}, !.unlistable = @ \cup {filePath}]
    /\ UNCHANGED <<clf, cz, cli, cfgFile, cm, variant, config, folders, retentionDays, forceDelete, now, fs, trash,
                   trashDirs, pc, folderIdx, report, cur, mv, moveResult>>

CleanFolder_NotAllowed ==
    /\ EntryReady
    /\ ~isProtectedFile(file)
    /\ fs[filePath].kind = "file"
    /\ ~isAllowedExtension(file)
    /\ SkipEntry
    /\ hist' = [hist EXCEPT !.examined = @ \cup {filePath}, !.skipped = @ \cup {filePath}]
    /\ UNCHANGED <<clf, cz, cli, cfgFile, cm, variant, config, folders, retentionDays, forceDelete, now, fs, trash,
                   trashDirs, folderIdx, report, cur, mv, moveResult, faults>>

CleanFolder_NotExpired ==
    /\ EntryReady
    /\ ~isProtectedFile(file)
    /\ fs[filePath].kind = "file"
    /\ isAllowedExtension(file)
    /\ ~isExpired(fs[filePath], retentionDays)
    /\ SkipEntry
    /\ hist' = [hist EXCEPT !.examined = @ \cup {filePath}, !.skipped = @ \cup {filePath}]
    /\ UNCHANGED <<clf, cz, cli, cfgFile, cm, variant, config, folders, retentionDays, forceDelete, now, fs, trash,
                   trashDirs, folderIdx, report, cur, mv, moveResult, faults>>

\* fs.statSync inside isExpired throws: isExpired returns false
CleanFolder_ExpiredStatError ==
    /\ EntryReady
    /\ ~isProtectedFile(file)
    /\ fs[filePath].kind = "file"
    /\ isAllowedExtension(file)
    /\ faults < MaxFaults
    /\ faults' = faults + 1
    /\ SkipEntry
    /\ hist' = [hist EXCEPT !.examined = @ \cup {filePath}, !.skipped = @ \cup {filePath},
                            !.failed = @ \cup {filePath}]
    /\ UNCHANGED <<clf, cz, cli, cfgFile, cm, variant, config, folders, retentionDays, forceDelete, now, fs, trash,
                   trashDirs, folderIdx, report, cur, mv, moveResult>>

\* the walker does not ask whether the file is expired
CleanFolder_Eligible_Unexpired ==
    /\ EntryReady
    /\ ~isProtectedFile(file)
    /\ fs[filePath].kind = "file"
    /\ isAllowedExtension(file)
    /\ stack' = SetTop(Counted)
    /\ cur' = filePath
    /\ pc' = "probe"
    /\ hist' = [hist EXCEPT !.examined = @ \cup {filePath}]
    /\ UNCHANGED <<clf, cz, cli, cfgFile, cm, variant, config, folders, retentionDays, forceDelete, now, fs, trash,
                   trashDirs, folderIdx, report, mv, moveResult, faults>>

\* all three predicates passed: the liveness probe is next
CleanFolder_Eligible ==
    /\ EntryReady
    /\ ~isProtectedFile(file)
    /\ fs[filePath].kind = "file"
    /\ isAllowedExtension(file)
    /\ isExpired(fs[filePath], retentionDays)
    /\ stack' = SetTop(Counted)
    /\ cur' = filePath
    /\ pc' = "probe"
    /\ hist' = [hist EXCEPT !.examined = @ \cup {filePath}]
    /\ UNCHANGED <<clf, cz, cli, cfgFile, cm, variant, config, folders, retentionDays, forceDelete, now, fs, trash,
                   trashDirs, folderIdx, report, mv, moveResult, faults>>

\* the listing is exhausted: cleanFolder returns its counters to its caller
CleanFolder_Return ==
    /\ pc = "walk"
    /\ stack # <<>>
    /\ Top.files = <<>>
    /\ IF Len(stack) = 1
       THEN /\ report' = accumulate(report, Top)
            /\ folderIdx' = folderIdx + 1
            /\ stack' = <<>>
            /\ pc' = "loop"
       ELSE /\ stack' = [SubSeq(stack, 1, Len(stack) - 1)
                            EXCEPT ![Len(stack) - 1] = merge(@, Top)]
            /\ UNCHANGED <<report, folderIdx, pc>>
    /\ UNCHANGED <<clf, cz, cli, cfgFile, cm, variant, config, folders, retentionDays, forceDelete, now, fs, trash,
                   trashDirs, cur, mv, moveResult, faults, hist>>

(***************************************************************************)
(* isFileInUse                                                             *)
(***************************************************************************)
\* error codes an open may fail with (one of each class of the switch)
ProbeErrors == {"EBUSY", "EACCES", "EIO"}

\* the switch on error.code in the catch clause of isFileInUse
inUseOnError(errorCode) ==
    CASE errorCode \in {"EBUSY", "EAGAIN", "ETXTBSY", "EMFILE", "ENFILE", "ESHUTDOWN", "EPIPE"}
             -> TRUE
      [] errorCode \in {"EACCES", "EPERM", "ENOENT"} -> FALSE
      [] OTHER -> TRUE

\* what the successful opens of the probe leave of the file: 'r' and 'r+'
\* change nothing; the move+zip variant then opens with 'w', which truncates
afterOpens(f) ==
    IF variant = "zip" THEN [f EXCEPT !.content = <<>>, !.mtimeMs = now] ELSE f

\* skippedFiles++ for the file the walker is acting on
SkipCur ==
    /\ stack' = SetTop([Top EXCEPT !.skippedFiles = @ + 1])
    /\ pc' = "walk"

IsFileInUse_Opened ==
    /\ pc = "probe"
    /\ fs' = [fs EXCEPT ![cur] = afterOpens(@)]
    /\ hist' = [hist EXCEPT !.probed = @ \cup {cur}, !.notInUse = @ \cup {cur}]
    /\ pc' = "dispatch"
    /\ UNCHANGED <<clf, cz, cli, cfgFile, cm, variant, config, folders, retentionDays, forceDelete, now, trash,
                   trashDirs, folderIdx, stack, report, cur, mv, moveResult, faults>>

\* an open throws (before any 'w' open has succeeded)
IsFileInUse_Error ==
    /\ pc = "probe"
    /\ faults < MaxFaults
    /\ faults' = faults + 1
    /\ \E errorCode \in ProbeErrors :
         IF inUseOnError(errorCode)
         THEN /\ SkipCur
              /\ hist' = [hist EXCEPT !.probed = @ \cup {cur}, !.skipped = @ \cup {cur},
                                      !.failed = @ \cup {cur}]
         ELSE /\ pc' = "dispatch"
              /\ hist' = [hist EXCEPT !.probed = @ \cup {cur}, !.notInUse = @ \cup {cur}]
              /\ UNCHANGED stack
    /\ UNCHANGED <<clf, cz, cli, cfgFile, cm, variant, config, folders, retentionDays, forceDelete, now, fs, trash,
                   trashDirs, folderIdx, report, cur, mv, moveResult>>

(***************************************************************************)
(* deleteFile, ensureDirectory, getUniqueFileName                          *)
(***************************************************************************)
\* the record cleanFolder pushes on movedFileList (fileSize, a formatted
\* string of stats.size, is left out)
Record(sourcePath, targetPath) ==
    [sourcePath |-> sourcePath, targetPath |-> targetPath, fileName |-> lastName(sourcePath)]

\* movedFiles++ and the push on movedFileList
Moved(f, rec) ==
    [f EXCEPT !.movedFiles = @ + 1, !.movedFileList = Append(@, rec)]

\* forceDelete: deleteFile removes the file, the walker records it
\* the record of a deleted file names a target path
DeleteFile_Removed_WithTarget ==
    /\ pc = "dispatch"
    /\ forceDelete
    /\ fs' = removeSource(cur)
    /\ stack' = SetTop(Moved(Top, Record(cur, join(<<>>, lastName(cur)))))
    /\ pc' = "walk"
    /\ UNCHANGED <<clf, cz, cli, cfgFile, cm, variant, config, folders, retentionDays, forceDelete, now, trash,
                   trashDirs, folderIdx, report, cur, mv, moveResult, faults, hist>>

DeleteFile_Removed ==
    /\ pc = "dispatch"
    /\ forceDelete
    /\ fs' = removeSource(cur)
    /\ stack' = SetTop(Moved(Top, Record(cur, Null)))
    /\ pc' = "walk"
    /\ UNCHANGED <<clf, cz, cli, cfgFile, cm, variant, config, folders, retentionDays, forceDelete, now, trash,
                   trashDirs, folderIdx, report, cur, mv, moveResult, faults, hist>>

\* forceDelete: statSync or removeSync throws inside deleteFile
DeleteFile_Error ==
    /\ pc = "dispatch"
    /\ forceDelete
    /\ faults < MaxFaults
    /\ faults' = faults + 1
    /\ SkipCur
    /\ hist' = [hist EXCEPT !.skipped = @ \cup {cur}, !.failed = @ \cup {cur}]
    /\ UNCHANGED <<clf, cz, cli, cfgFile, cm, variant, config, folders, retentionDays, forceDelete, now, fs, trash,
                   trashDirs, folderIdx, report, cur, mv, moveResult>>

\* ensureDirectory(targetDir) returns false
EnsureDirectory_Error ==
    /\ pc = "dispatch"
    /\ ~forceDelete
    /\ faults < MaxFaults
    /\ faults' = faults + 1
    /\ SkipCur
    /\ hist' = [hist EXCEPT !.skipped = @ \cup {cur}, !.failed = @ \cup {cur}]
    /\ UNCHANGED <<clf, cz, cli, cfgFile, cm, variant, config, folders, retentionDays, forceDelete, now, fs, trash,
                   trashDirs, folderIdx, report, cur, mv, moveResult>>

\* the do-while loop of getUniqueFileName
RECURSIVE uniqueFrom(_, _, _, _)
uniqueFrom(targetDir, baseName, ext, counter) ==
    LET uniquePath == join(targetDir, baseName \o <<"_">> \o toString(counter) \o ext) IN
    IF trashExists(uniquePath)
    THEN uniqueFrom(targetDir, baseName, ext, counter + 1)
    ELSE uniquePath

\* the target name is taken as it is, whether or not it exists
getUniqueFileName_Same(targetDir, fileName) ==
    join(targetDir, fileName)

getUniqueFileName(targetDir, fileName) ==
    IF ~trashExists(join(targetDir, fileName))
    THEN join(targetDir, fileName)
    ELSE LET ext == extname(fileName) IN
         uniqueFrom(targetDir, basename(fileName, ext), ext, 1)

(***************************************************************************)
(* moveFile, move+zip variant (cleaner.js 232-265): synchronous            *)
(***************************************************************************)
Success(targetPath) == [success |-> TRUE, targetPath |-> targetPath, fileName |-> lastName(cur)]
Failure == [success |-> FALSE, targetPath |-> Null, fileName |-> lastName(cur)]

\* where the move+zip variant puts the file: the directory of its path
\* relative to baseDir, under the move target directory
zipTargetFileDir == dirname(relative(Top.baseDir, cur))

\* fs.moveSync succeeded: the file is at the unique target path, the source is gone
MoveFile_Zip_Moved ==
    /\ pc = "dispatch"
    /\ ~forceDelete
    /\ variant = "zip"
    /\ LET uniqueTargetPath == getUniqueFileName(zipTargetFileDir, lastName(cur)) IN
         /\ trash' = writeTrash(uniqueTargetPath, TrashFile(fs[cur].content))
         /\ mv' = [NoMove EXCEPT !.filePath = cur, !.entryContent = fs[cur].content,
                                 !.uniqueTargetPath = uniqueTargetPath]
         /\ moveResult' = Success(uniqueTargetPath)
    /\ trashDirs' = trashDirs \cup dirsOf(zipTargetFileDir)
    /\ fs' = removeSource(cur)
    /\ pc' = "mv_ret"
    /\ UNCHANGED <<clf, cz, cli, cfgFile, cm, variant, config, folders, retentionDays, forceDelete, now,
                   folderIdx, stack, report, cur, faults, hist>>

\* ensureDirSync, statSync or moveSync throws: the catch returns the failure
MoveFile_Zip_Error ==
    /\ pc = "dispatch"
    /\ ~forceDelete
    /\ variant = "zip"
    /\ faults < MaxFaults
    /\ faults' = faults + 1
    /\ \E made \in BOOLEAN :
         trashDirs' = IF made THEN trashDirs \cup dirsOf(zipTargetFileDir) ELSE trashDirs
    /\ mv' = [NoMove EXCEPT !.filePath = cur, !.entryContent = fs[cur].content]
    /\ moveResult' = Failure
    /\ pc' = "mv_ret"
    /\ UNCHANGED <<clf, cz, cli, cfgFile, cm, variant, config, folders, retentionDays, forceDelete, now, fs, trash,
                   folderIdx, stack, report, cur, hist>>

(***************************************************************************)
(* moveFile, verified-copy variant (cleaner.js 897-1050)                   *)
(***************************************************************************)
\* calculateFileHash: the MD5 digest of the bytes, taken to be collision-free
calculateFileHash(bytes) == <<"md5", bytes>>

\* the catch block leaves the target file where it is
Cleanup_Never(removed) ==
    trash' = trash

\* Cleanup that removes the file of the source's own name in the target directory
\* instead of the path this transfer resolved
Cleanup_RemovesPlainName(removed) ==
    LET plain == dirname(mv.uniqueTargetPath) \o <<lastName(mv.filePath)>> IN
    trash' = IF removed /\ plain \in DOMAIN trash THEN removeTrash(plain) ELSE trash

\* the catch clause of moveFile and the two mismatch branches: the target
\* file is removed if it exists, unless that removal throws too
Cleanup(removed) ==
    trash' = IF removed /\ mv.uniqueTargetPath \in DOMAIN trash
             THEN removeTrash(mv.uniqueTargetPath)
             ELSE trash

\* a removal that throws is one more injected failure
CleanupOutcome(already) ==
    \E removed \in BOOLEAN :
        /\ Cleanup(removed)
        /\ IF removed \/ mv.uniqueTargetPath \notin DOMAIN trash
           THEN faults' = faults + already /\ UNCHANGED hist
           ELSE /\ faults + already < MaxFaults
                /\ faults' = faults + already + 1
                /\ hist' = [hist EXCEPT !.cleanupFailed = @ \cup {mv.uniqueTargetPath}]

\* moveFile up to its first await: source read, target path resolved
\* moveFile is started and not awaited: the walker counts the entry and goes on
MoveFile_Begin_NotAwaited ==
    /\ pc = "dispatch"
    /\ ~forceDelete
    /\ variant = "verify"
    /\ mv' = [filePath |-> cur,
              sourceContent |-> fs[cur].content,
              size |-> Len(fs[cur].content),
              uniqueTargetPath |-> getUniqueFileName(<<>>, lastName(cur)),
              sourceHash |-> <<>>,
              entryContent |-> fs[cur].content]
    /\ trashDirs' = trashDirs \cup {<<>>}
    /\ SkipCur
    /\ hist' = [hist EXCEPT !.skipped = @ \cup {cur}]
    /\ UNCHANGED <<clf, cz, cli, cfgFile, cm, variant, config, folders, retentionDays, forceDelete, now, fs, trash,
                   folderIdx, report, cur, moveResult, faults>>

MoveFile_Begin ==
    /\ pc = "dispatch"
    /\ ~forceDelete
    /\ variant = "verify"
    /\ mv' = [filePath |-> cur,
              sourceContent |-> fs[cur].content,
              size |-> Len(fs[cur].content),
              uniqueTargetPath |-> getUniqueFileName(<<>>, lastName(cur)),
              sourceHash |-> <<>>,
              entryContent |-> fs[cur].content]
    /\ trashDirs' = trashDirs \cup {<<>>}
    /\ pc' = "mv_srchash"
    /\ UNCHANGED <<clf, cz, cli, cfgFile, cm, variant, config, folders, retentionDays, forceDelete, now, fs, trash,
                   folderIdx, stack, report, cur, moveResult, faults, hist>>

\* statSync or readFileSync of the source throws: no target path yet
MoveFile_ReadError ==
    /\ pc = "dispatch"
    /\ ~forceDelete
    /\ variant = "verify"
    /\ faults < MaxFaults
    /\ faults' = faults + 1
    /\ mv' = [NoMove EXCEPT !.filePath = cur, !.entryContent = fs[cur].content]
    /\ moveResult' = Failure
    /\ pc' = "mv_ret"
    /\ UNCHANGED <<clf, cz, cli, cfgFile, cm, variant, config, folders, retentionDays, forceDelete, now, fs, trash,
                   trashDirs, folderIdx, stack, report, cur, hist>>

\* await calculateFileHash(filePath) resolves
MoveFile_SourceHash ==
    /\ pc = "mv_srchash"
    /\ mv' = [mv EXCEPT !.sourceHash = calculateFileHash(fs[mv.filePath].content)]
    /\ pc' = "mv_write"
    /\ UNCHANGED <<clf, cz, cli, cfgFile, cm, variant, config, folders, retentionDays, forceDelete, now, fs, trash,
                   trashDirs, folderIdx, stack, report, cur, moveResult, faults, hist>>

\* a calculateFileHash promise rejects (source or target): catch and cleanup
MoveFile_HashError ==
    /\ pc \in {"mv_srchash", "mv_dsthash"}
    /\ faults < MaxFaults
    /\ CleanupOutcome(1)
    /\ moveResult' = Failure
    /\ pc' = "mv_ret"
    /\ UNCHANGED <<clf, cz, cli, cfgFile, cm, variant, config, folders, retentionDays, forceDelete, now, fs,
                   trashDirs, folderIdx, stack, report, cur, mv>>

\* what a failing write may leave at the target: a prefix of the bytes, or
\* bytes of the right length with a wrong first byte
badWrites(bytes) ==
    IF bytes = <<>> THEN {}
    ELSE { SubSeq(bytes, 1, Len(bytes) - 1), [bytes EXCEPT ![1] = 0] }

\* fs.writeFileSync(uniqueTargetPath, sourceContent) returns
MoveFile_Write ==
    /\ pc = "mv_write"
    /\ \/ /\ trash' = writeTrash(mv.uniqueTargetPath, TrashFile(mv.sourceContent))
          /\ UNCHANGED faults
       \/ /\ faults < MaxFaults
          /\ faults' = faults + 1
          /\ \/ \E written \in badWrites(mv.sourceContent) :
                   trash' = writeTrash(mv.uniqueTargetPath, TrashFile(written))
             \/ UNCHANGED trash
    /\ pc' = "mv_size"
    /\ UNCHANGED <<clf, cz, cli, cfgFile, cm, variant, config, folders, retentionDays, forceDelete, now, fs,
                   trashDirs, folderIdx, stack, report, cur, mv, moveResult, hist>>

\* fs.writeFileSync throws, possibly after writing part of the file
MoveFile_WriteError ==
    /\ pc = "mv_write"
    /\ faults < MaxFaults
    /\ \E partial \in BOOLEAN : \E removed \in BOOLEAN :
         /\ trash' = IF partial /\ ~removed
                     THEN writeTrash(mv.uniqueTargetPath, TrashFile(<<>>))
                     ELSE trash
         /\ hist' = IF partial /\ ~removed
                     THEN [hist EXCEPT !.cleanupFailed = @ \cup {mv.uniqueTargetPath}]
                     ELSE hist
         /\ IF partial /\ ~removed
            THEN faults + 1 < MaxFaults /\ faults' = faults + 2
            ELSE faults' = faults + 1
    /\ moveResult' = Failure
    /\ pc' = "mv_ret"
    /\ UNCHANGED <<clf, cz, cli, cfgFile, cm, variant, config, folders, retentionDays, forceDelete, now, fs,
                   trashDirs, folderIdx, stack, report, cur, mv>>

\* the target does not exist after the write: failure is returned
MoveFile_TargetMissing ==
    /\ pc = "mv_size"
    /\ mv.uniqueTargetPath \notin DOMAIN trash
    /\ moveResult' = Failure
    /\ pc' = "mv_ret"
    /\ UNCHANGED <<clf, cz, cli, cfgFile, cm, variant, config, folders, retentionDays, forceDelete, now, fs, trash,
                   trashDirs, folderIdx, stack, report, cur, mv, faults, hist>>

\* stats.size !== targetStats.size: the target is removed, failure returned
MoveFile_SizeMismatch ==
    /\ pc = "mv_size"
    /\ mv.uniqueTargetPath \in DOMAIN trash
    /\ mv.size # Len(trash[mv.uniqueTargetPath].content)
    /\ CleanupOutcome(0)
    /\ moveResult' = Failure
    /\ pc' = "mv_ret"
    /\ UNCHANGED <<clf, cz, cli, cfgFile, cm, variant, config, folders, retentionDays, forceDelete, now, fs,
                   trashDirs, folderIdx, stack, report, cur, mv>>

\* readFileSync or statSync of the target throws: catch and cleanup
MoveFile_TargetReadError ==
    /\ pc = "mv_size"
    /\ mv.uniqueTargetPath \in DOMAIN trash
    /\ faults < MaxFaults
    /\ CleanupOutcome(1)
    /\ moveResult' = Failure
    /\ pc' = "mv_ret"
    /\ UNCHANGED <<clf, cz, cli, cfgFile, cm, variant, config, folders, retentionDays, forceDelete, now, fs,
                   trashDirs, folderIdx, stack, report, cur, mv>>

\* the sizes agree: the checksum of the target is awaited
MoveFile_SizeOk ==
    /\ pc = "mv_size"
    /\ mv.uniqueTargetPath \in DOMAIN trash
    /\ mv.size = Len(trash[mv.uniqueTargetPath].content)
    /\ pc' = "mv_dsthash"
    /\ UNCHANGED <<clf, cz, cli, cfgFile, cm, variant, config, folders, retentionDays, forceDelete, now, fs, trash,
                   trashDirs, folderIdx, stack, report, cur, mv, moveResult, faults, hist>>

\* sourceHash !== targetHash: the target is removed, failure returned
MoveFile_HashMismatch ==
    /\ pc = "mv_dsthash"
    /\ mv.sourceHash # calculateFileHash(trash[mv.uniqueTargetPath].content)
    /\ CleanupOutcome(0)
    /\ moveResult' = Failure
    /\ pc' = "mv_ret"
    /\ UNCHANGED <<clf, cz, cli, cfgFile, cm, variant, config, folders, retentionDays, forceDelete, now, fs,
                   trashDirs, folderIdx, stack, report, cur, mv>>

\* the target's checksum is not compared with the source's
MoveFile_HashOk_Unchecked ==
    /\ pc = "mv_dsthash"
    /\ hist' = [hist EXCEPT !.verified = @ \cup {mv.uniqueTargetPath}]
    /\ pc' = "mv_rmsrc"
    /\ UNCHANGED <<clf, cz, cli, cfgFile, cm, variant, config, folders, retentionDays, forceDelete, now, fs, trash,
                   trashDirs, folderIdx, stack, report, cur, mv, moveResult, faults>>

\* the checksums agree: the copy is verified
MoveFile_HashOk ==
    /\ pc = "mv_dsthash"
    /\ mv.sourceHash = calculateFileHash(trash[mv.uniqueTargetPath].content)
    /\ hist' = [hist EXCEPT !.verified = @ \cup {mv.uniqueTargetPath}]
    /\ pc' = "mv_rmsrc"
    /\ UNCHANGED <<clf, cz, cli, cfgFile, cm, variant, config, folders, retentionDays, forceDelete, now, fs, trash,
                   trashDirs, folderIdx, stack, report, cur, mv, moveResult, faults>>

\* fs.removeSync(filePath): the source is removed and success returned
MoveFile_RemoveSource ==
    /\ pc = "mv_rmsrc"
    /\ fs' = removeSource(mv.filePath)
    /\ moveResult' = Success(mv.uniqueTargetPath)
    /\ pc' = "mv_ret"
    /\ UNCHANGED <<clf, cz, cli, cfgFile, cm, variant, config, folders, retentionDays, forceDelete, now, trash,
                   trashDirs, folderIdx, stack, report, cur, mv, faults, hist>>

\* fs.removeSync(filePath) throws: the catch removes the verified target
MoveFile_RemoveSourceError ==
    /\ pc = "mv_rmsrc"
    /\ faults < MaxFaults
    /\ CleanupOutcome(1)
    /\ moveResult' = Failure
    /\ pc' = "mv_ret"
    /\ UNCHANGED <<clf, cz, cli, cfgFile, cm, variant, config, folders, retentionDays, forceDelete, now, fs,
                   trashDirs, folderIdx, stack, report, cur, mv>>

\* a failed transfer is rethrown instead of being counted
CleanFolder_MoveResult_Rethrow ==
    /\ pc = "mv_ret"
    /\ IF moveResult.success
       THEN /\ stack' = SetTop(Moved(Top, Record(cur, moveResult.targetPath)))
            /\ pc' = "walk"
       ELSE /\ stack' = stack
            /\ pc' = "threw"
    /\ UNCHANGED <<clf, cz, cli, cfgFile, cm, variant, config, folders, retentionDays, forceDelete, now, fs, trash,
                   trashDirs, folderIdx, report, cur, mv, moveResult, faults, hist>>

\* cleanFolder takes the result of moveFile
CleanFolder_MoveResult ==
    /\ pc = "mv_ret"
    /\ IF moveResult.success
       THEN /\ stack' = SetTop(Moved(Top, Record(cur, moveResult.targetPath)))
            /\ UNCHANGED hist
       ELSE /\ stack' = SetTop([Top EXCEPT !.skippedFiles = @ + 1])
            /\ hist' = [hist EXCEPT !.skipped = @ \cup {cur}, !.failed = @ \cup {cur}]
    /\ pc' = "walk"
    /\ UNCHANGED <<clf, cz, cli, cfgFile, cm, variant, config, folders, retentionDays, forceDelete, now, fs, trash,
                   trashDirs, folderIdx, report, cur, mv, moveResult, faults>>

(***************************************************************************)
(* executeCleanup: after the folder loop                                   *)
(***************************************************************************)
\* the move+zip variant archives when enableCompression && allMovedFiles.length > 0
compressionDue ==
    variant = "zip" /\ config.enableCompression /\ Len(report.movedFilesList) > 0

\* `${compressionPrefix}${timestamp}.zip` of this run
ArchiveName == <<"c","l","e","a","n","u","p","_","n","o","w",".","z","i","p">>

ExecuteCleanup_Return ==
    /\ pc = "loop"
    /\ folderIdx > Len(folders)
    /\ pc' = IF compressionDue THEN "compress" ELSE "done"
    /\ UNCHANGED <<clf, cz, cli, cfgFile, cm, variant, config, folders, retentionDays, forceDelete, now, fs, trash,
                   trashDirs, folderIdx, stack, report, cur, mv, moveResult, faults, hist>>

\* addDirectoryToZip(zip, targetDir): every file below the move target directory
archiveEntries == { [name |-> p, content |-> trash[p].content] : p \in DOMAIN trash }

\* compressDirectory succeeds: the archive is written and read back; with
\* deleteAfterCompression every file of fileList and every empty directory
\* is removed
CompressDirectory_Done ==
    /\ pc = "compress"
    /\ LET archive == [content |-> <<>>, entries |-> archiveEntries] IN
         trash' = IF config.deleteAfterCompression
                  THEN (<<ArchiveName>> :> archive)
                  ELSE writeTrash(<<ArchiveName>>, archive)
    /\ trashDirs' = IF config.deleteAfterCompression THEN {<<>>} ELSE trashDirs
    /\ report' = [report EXCEPT !.compression =
                     [invoked |-> TRUE, success |-> TRUE,
                      fileCount |-> Cardinality(DOMAIN trash), outputPath |-> <<ArchiveName>>]]
    /\ pc' = "done"
    /\ UNCHANGED <<clf, cz, cli, cfgFile, cm, variant, config, folders, retentionDays, forceDelete, now, fs,
                   folderIdx, stack, cur, mv, moveResult, faults, hist>>

\* reading, writing or reading back throws: the failure result is returned,
\* nothing is removed; the archive may have been written
CompressDirectory_Error ==
    /\ pc = "compress"
    /\ faults < MaxFaults
    /\ faults' = faults + 1
    /\ \E written \in BOOLEAN :
         trash' = IF written
                  THEN writeTrash(<<ArchiveName>>, [content |-> <<>>, entries |-> archiveEntries])
                  ELSE trash
    /\ report' = [report EXCEPT !.compression =
                     [invoked |-> TRUE, success |-> FALSE, fileCount |-> 0, outputPath |-> Null]]
    /\ pc' = "done"
    /\ UNCHANGED <<clf, cz, cli, cfgFile, cm, variant, config, folders, retentionDays, forceDelete, now, fs,
                   trashDirs, folderIdx, stack, cur, mv, moveResult, hist>>

(***************************************************************************)
(* compressDirectory, statement by statement                               *)
(***************************************************************************)
\* what compressDirectory leaves alone
compressFrame ==
    <<clf, cli, cfgFile, cm, variant, config, folders, retentionDays, forceDelete, now, fs, folderIdx, stack,
      cur, mv, moveResult, faults, hist>>

\* the result object of the catch clause
compressionFailed == [invoked |-> TRUE, success |-> FALSE, fileCount |-> 0, outputPath |-> Null]

\* the result object of a successful return with n files
compressionDone(n) == [invoked |-> TRUE, success |-> TRUE, fileCount |-> n, outputPath |-> <<ArchiveName>>]

\* a file of t lies below the directory d
hasFileBelow(d, t) == \E p \in DOMAIN t : Len(p) > Len(d) /\ SubSeq(p, 1, Len(d)) = d

\* removeEmptyDirs(sourceDir): every directory without a file below it goes
removeEmptyDirs(dirs, t) == { d \in dirs : hasFileBelow(d, t) }

\* addDirectoryToZip returns a non-empty fileList: every file below sourceDir
CompressDirectory_List ==
    /\ pc = "cz_start"
    /\ DOMAIN trash # {}
    /\ cz' = [cz EXCEPT !.fileList = DOMAIN trash, !.pending = DOMAIN trash, !.trashBefore = trash]
    /\ pc' = "cz_write"
    /\ UNCHANGED <<trash, trashDirs, report>>
    /\ UNCHANGED compressFrame

\* fileCount === 0: success is returned and nothing is written
CompressDirectory_Empty ==
    /\ pc = "cz_start"
    /\ DOMAIN trash = {}
    /\ cz' = [cz EXCEPT !.trashBefore = trash]
    /\ report' = [report EXCEPT !.compression = compressionDone(0)]
    /\ pc' = "cz_done"
    /\ UNCHANGED <<trash, trashDirs>>
    /\ UNCHANGED compressFrame

\* sourceDir does not exist, or listing or reading a file throws
CompressDirectory_ListFails ==
    /\ pc = "cz_start"
    /\ cz' = [cz EXCEPT !.trashBefore = trash]
    /\ report' = [report EXCEPT !.compression = compressionFailed]
    /\ pc' = "cz_done"
    /\ UNCHANGED <<trash, trashDirs>>
    /\ UNCHANGED compressFrame

\* fs.remove(outputPath), then zip.writeZip(outputPath) writes the archive
CompressDirectory_Write ==
    /\ pc = "cz_write"
    /\ trash' = (<<ArchiveName>> :> [content |-> <<>>, entries |-> archiveEntries]) @@
                removeTrash(<<ArchiveName>>)
    /\ cz' = [cz EXCEPT !.written = TRUE]
    /\ pc' = "cz_verify"
    /\ UNCHANGED <<trashDirs, report>>
    /\ UNCHANGED compressFrame

\* writeZip reports an error: the callback throws; part of the archive may
\* be on disk
CompressDirectory_WriteFails ==
    /\ pc = "cz_write"
    /\ \E partial \in BOOLEAN :
         trash' = IF partial
                  THEN (<<ArchiveName>> :> [content |-> <<>>, entries |-> {}]) @@ removeTrash(<<ArchiveName>>)
                  ELSE removeTrash(<<ArchiveName>>)
    /\ report' = [report EXCEPT !.compression = compressionFailed]
    /\ pc' = "cz_done"
    /\ UNCHANGED <<trashDirs, cz>>
    /\ UNCHANGED compressFrame

\* every entry of the archive is read back
CompressDirectory_Verify ==
    /\ pc = "cz_verify"
    /\ cz' = [cz EXCEPT !.verified = TRUE]
    /\ pc' = IF config.deleteAfterCompression THEN "cz_delete" ELSE "cz_return"
    /\ UNCHANGED <<trash, trashDirs, report>>
    /\ UNCHANGED compressFrame

\* the verified-or-not archive is cleaned up after all
CompressDirectory_VerifyFails_StillDeletes ==
    /\ pc = "cz_verify"
    /\ pc' = "cz_delete"
    /\ UNCHANGED <<trash, trashDirs, report, cz>>
    /\ UNCHANGED compressFrame

\* opening the archive or reading an entry throws: isIntegrityValid is false
CompressDirectory_VerifyFails ==
    /\ pc = "cz_verify"
    /\ report' = [report EXCEPT !.compression = compressionFailed]
    /\ pc' = "cz_done"
    /\ UNCHANGED <<trash, trashDirs, cz>>
    /\ UNCHANGED compressFrame

\* fs.removeSync(file.path) for a file of fileList
CompressDirectory_RemoveFile ==
    /\ pc = "cz_delete"
    /\ \E p \in cz.pending :
         /\ trash' = removeTrash(p)
         /\ cz' = [cz EXCEPT !.pending = @ \ {p}]
    /\ UNCHANGED <<trashDirs, report, pc>>
    /\ UNCHANGED compressFrame

\* fs.removeSync(file.path) throws: a warning, and the loop goes on
CompressDirectory_RemoveFileFails ==
    /\ pc = "cz_delete"
    /\ \E p \in cz.pending : cz' = [cz EXCEPT !.pending = @ \ {p}]
    /\ UNCHANGED <<trash, trashDirs, report, pc>>
    /\ UNCHANGED compressFrame

\* after the loop: removeEmptyDirs(sourceDir)
CompressDirectory_RemoveEmptyDirs ==
    /\ pc = "cz_delete"
    /\ cz.pending = {}
    /\ trashDirs' = removeEmptyDirs(trashDirs, trash)
    /\ pc' = "cz_return"
    /\ UNCHANGED <<trash, report, cz>>
    /\ UNCHANGED compressFrame

\* the success result
CompressDirectory_Return ==
    /\ pc = "cz_return"
    /\ report' = [report EXCEPT !.compression = compressionDone(Cardinality(cz.fileList))]
    /\ pc' = "cz_done"
    /\ UNCHANGED <<trash, trashDirs, cz>>
    /\ UNCHANGED compressFrame

(***************************************************************************)
(* Configuration file (config.yaml) and its YAML reading                   *)
(***************************************************************************)
\* A YAML value as js-yaml returns it: undefined (key absent), null, a number,
\* a list of strings, or a map given as a sequence of <<field, value>> pairs.
Undefined == [t |-> "undefined", num |-> 0, items |-> <<>>, fields |-> <<>>]
YNull == [t |-> "null", num |-> 0, items |-> <<>>, fields |-> <<>>]
Num(n) == [t |-> "num", num |-> n, items |-> <<>>, fields |-> <<>>]
List(xs) == [t |-> "list", num |-> 0, items |-> xs, fields |-> <<>>]
Map(fs_) == [t |-> "map", num |-> 0, items |-> <<>>, fields |-> fs_]

\* The top-level keys the programs read
Keys == {"retentionDays", "allowedExtensions", "protectedFiles", "logConfig", "moveConfig", "folders"}

\* A top-level section of the file. style "scalar" is a line `key: value`;
\* style "block" is a line `key:` followed by indented item or field lines.
\* List items are kept as the text written in the file.
Section(k, style, v) == [key |-> k, style |-> style, value |-> v]

\* folder.replace(/\\/g, '\\\\').replace(/"/g, '\\"')
RECURSIVE escapePath(_)
escapePath(s) ==
    IF s = <<>> THEN <<>>
    ELSE (IF Head(s) \in {"\\", "\""} THEN <<"\\", Head(s)>> ELSE <<Head(s)>>) \o escapePath(Tail(s))

\* the item line `  - "${...}"` of a folder
quoted(folder) == <<"\"">> \o escapePath(folder) \o <<"\"">>

\* the escapes of a YAML double-quoted scalar
RECURSIVE unescape(_)
unescape(s) ==
    IF s = <<>> THEN <<>>
    ELSE IF Head(s) = "\\" /\ Len(s) >= 2 THEN <<s[2]>> \o unescape(Tail(Tail(s)))
    ELSE <<Head(s)>> \o unescape(Tail(s))

\* yaml.load of one list item: a double-quoted scalar or a plain one
yamlScalar(text) ==
    IF Len(text) >= 2 /\ Head(text) = "\"" /\ text[Len(text)] = "\""
    THEN unescape(SubSeq(text, 2, Len(text) - 1))
    ELSE text

\* yaml.load of one section: `key:` with nothing under it is null
yamlValue(section) ==
    IF section.value.t = "list"
    THEN IF section.value.items = <<>> THEN YNull
         ELSE List([i \in 1..Len(section.value.items) |-> yamlScalar(section.value.items[i])])
    ELSE section.value

\* configManager.js loadFullConfig: yaml.load of the file, {} when there is none
loadFullConfig(yamlFile) ==
    [k \in Keys |->
        IF yamlFile.exists /\ \E i \in 1..Len(yamlFile.sections) : yamlFile.sections[i].key = k
        THEN yamlValue(yamlFile.sections[CHOOSE i \in 1..Len(yamlFile.sections) : yamlFile.sections[i].key = k])
        ELSE Undefined]

\* configManager.js loadConfig: config.folders || []
loadConfig(yamlFile) ==
    LET loaded == loadFullConfig(yamlFile) IN
    IF loaded["folders"].t = "list" THEN loaded["folders"].items ELSE <<>>

\* configManager.js getAllFolders
getAllFolders(yamlFile) == loadConfig(yamlFile)

DefaultExtensions ==
    << <<"d","o","c","x">>, <<"x","l","s","x">>, <<"c","s","v">>, <<"p","p","t","x">>, <<"t","x","t">> >>

DefaultProtected ==
    << <<"d","e","s","k","t","o","p",".","i","n","i">>, <<"t","h","u","m","b","s",".","d","b">>,
       <<"$","r","e","c","y","c","l","e",".","b","i","n">>,
       <<"s","y","s","t","e","m"," ","v","o","l","u","m","e"," ","i","n","f","o","r","m","a","t","i","o","n">> >>

DefaultLogConfig ==
    << <<"level", "info">>, <<"filePath", "logs/cleanup.log">>, <<"maxSize", "10">>, <<"maxFiles", "5">> >>

\* the `folders:` section saveConfig writes
newFoldersSection(list) ==
    Section("folders", "block", List([i \in 1..Len(list) |-> quoted(list[i])]))

\* configManager.js saveConfig, file missing: the default configuration
DefaultFile ==
    [exists |-> TRUE,
     sections |-> << Section("retentionDays", "scalar", Num(0)),
                     Section("allowedExtensions", "block", List(DefaultExtensions)),
                     Section("protectedFiles", "block", List(DefaultProtected)),
                     Section("logConfig", "block", Map(DefaultLogConfig)),
                     Section("moveConfig", "block", Map(<< <<"targetDirectory", "trash">> >>)),
                     Section("folders", "block", List(<<>>)) >>]

\* /.*folders:\s*$/m : a line that ends with `folders:`
isFoldersLine(section) == section.key = "folders" /\ section.style = "block"

\* /^\s*[^\s:]+:\s*$/m : a line that holds a key and nothing after the colon
isKeyOnlyLine(section) == section.style = "block"

\* configManager.js saveConfig: replace the text from the `folders:` line up to the
\* next key-only line; append the section when there is no `folders:` line
saveConfig(yamlFile, list) ==
    IF ~yamlFile.exists THEN DefaultFile
    ELSE LET s == yamlFile.sections
             n == Len(s)
         IN  IF \E i \in 1..n : isFoldersLine(s[i])
             THEN LET foldersStartIndex == CHOOSE i \in 1..n :
                          isFoldersLine(s[i]) /\ \A j \in 1..(i - 1) : ~isFoldersLine(s[j])
                      later == { j \in (foldersStartIndex + 1)..n : isKeyOnlyLine(s[j]) }
                      foldersEndIndex ==
                          IF later # {} THEN CHOOSE j \in later : \A k \in later : j <= k
                          ELSE n + 1
                      beforeFolders == SubSeq(s, 1, foldersStartIndex - 1)
                      afterFolders == SubSeq(s, foldersEndIndex, n)
                  IN  [yamlFile EXCEPT !.sections = beforeFolders \o <<newFoldersSection(list)>> \o afterFolders]
             ELSE [yamlFile EXCEPT !.sections = s \o <<newFoldersSection(list)>>]

\* a || b of JavaScript on a YAML value
orElse(v, default) ==
    IF v.t \in {"undefined", "null"} \/ (v.t = "num" /\ v.num = 0) THEN default ELSE v

\* the value of a field of a map, "undefined" when the template prints a missing one
field(map, name) ==
    IF \E i \in 1..Len(map.fields) : map.fields[i][1] = name
    THEN map.fields[CHOOSE i \in 1..Len(map.fields) : map.fields[i][1] = name][2]
    ELSE "undefined"

\* the earlier saveConfig: the whole file is written again from the loaded values
saveConfig_Rewrite(yamlFile, list) ==
    LET loadedConfig == loadFullConfig(yamlFile)
        retention == orElse(loadedConfig["retentionDays"], Num(7))
        extensions == orElse(loadedConfig["allowedExtensions"], List(DefaultExtensions))
        protected == orElse(loadedConfig["protectedFiles"], List(DefaultProtected))
        logConfig == orElse(loadedConfig["logConfig"], Map(DefaultLogConfig))
    IN  [exists |-> TRUE,
         sections |-> << Section("retentionDays", "scalar", retention),
                         Section("allowedExtensions", "block", extensions),
                         Section("protectedFiles", "block", protected),
                         Section("logConfig", "block",
                                 Map(<< <<"level", field(logConfig, "level")>>,
                                        <<"filePath", field(logConfig, "filePath")>>,
                                        <<"maxSize", field(logConfig, "maxSize")>>,
                                        <<"maxFiles", field(logConfig, "maxFiles")>> >>)),
                         newFoldersSection(list) >>]

\* the saveConfig of the configuration manager in use
Save(yamlFile, list) ==
    IF cm.variant = "rewrite" THEN saveConfig_Rewrite(yamlFile, list) ELSE saveConfig(yamlFile, list)

\* String.prototype.trim, for blanks
RECURSIVE trimStart(_)
trimStart(s) == IF s # <<>> /\ Head(s) = " " THEN trimStart(Tail(s)) ELSE s

RECURSIVE trimEnd(_)
trimEnd(s) == IF s # <<>> /\ s[Len(s)] = " " THEN trimEnd(SubSeq(s, 1, Len(s) - 1)) ELSE s

trim(s) == trimEnd(trimStart(s))

\* process.cwd()
Cwd == <<"f",":","\\">>

isSep(c) == c \in {"\\", "/"}

isLetter(c) == \E i \in 1..26 : UpperChars[i] = c \/ LowerChars[i] = c

\* /^[a-zA-Z]:[\\/]/
windowsAbsolutePathRegex(s) == Len(s) >= 3 /\ isLetter(s[1]) /\ s[2] = ":" /\ isSep(s[3])

\* path.isAbsolute (win32)
isAbsolute(s) == (Len(s) >= 1 /\ isSep(s[1])) \/ windowsAbsolutePathRegex(s)

\* the names between the separators of s; acc is the name being read
RECURSIVE segments(_, _)
segments(s, acc) ==
    IF s = <<>> THEN (IF acc = <<>> THEN <<>> ELSE <<acc>>)
    ELSE IF isSep(Head(s)) THEN (IF acc = <<>> THEN <<>> ELSE <<acc>>) \o segments(Tail(s), <<>>)
    ELSE segments(Tail(s), Append(acc, Head(s)))

\* "." is dropped and ".." takes the name before it away
RECURSIVE normalizeSegments(_, _)
normalizeSegments(todo, done) ==
    IF todo = <<>> THEN done
    ELSE IF Head(todo) = <<".">> THEN normalizeSegments(Tail(todo), done)
    ELSE IF Head(todo) = <<".", ".">>
         THEN normalizeSegments(Tail(todo), IF done = <<>> THEN done ELSE SubSeq(done, 1, Len(done) - 1))
    ELSE normalizeSegments(Tail(todo), Append(done, Head(todo)))

RECURSIVE joinSegments(_)
joinSegments(segs) ==
    IF segs = <<>> THEN <<>>
    ELSE IF Len(segs) = 1 THEN segs[1]
    ELSE segs[1] \o <<"\\">> \o joinSegments(Tail(segs))

\* the path with the drive of the working directory in front where it has none
onDrive(s) ==
    IF windowsAbsolutePathRegex(s) THEN s
    ELSE IF isAbsolute(s) THEN SubSeq(Cwd, 1, 2) \o s
    ELSE Cwd \o <<"\\">> \o s

\* path.resolve(s) and path.resolve(process.cwd(), s) (win32): drive, root and
\* the normalized names, without a trailing separator
resolve(s) ==
    LET full == onDrive(s) IN
    SubSeq(full, 1, 2) \o <<"\\">> \o
    joinSegments(normalizeSegments(segments(SubSeq(full, 3, Len(full)), <<>>), <<>>))

\* path.join(process.cwd(), s) (win32): normalized as well, but a trailing
\* separator of s is kept
joinCwd(s) ==
    LET full == Cwd \o <<"\\">> \o s
        tail == joinSegments(normalizeSegments(segments(SubSeq(full, 3, Len(full)), <<>>), <<>>))
    IN  SubSeq(full, 1, 2) \o <<"\\">> \o tail \o
        (IF tail # <<>> /\ s # <<>> /\ isSep(s[Len(s)]) THEN <<"\\">> ELSE <<>>)

\* /[<>:"|?*]/
invalidChars(s) == \E i \in 1..Len(s) : s[i] \in {"<", ">", ":", "\"", "|", "?", "*"}

\* validateFolderPath: hasInvalidChars of the trimmed path
hasInvalidChars(trimmedPath) ==
    /\ invalidChars(trimmedPath)
    /\ IF windowsAbsolutePathRegex(trimmedPath)
       THEN invalidChars(SubSeq(trimmedPath, 3, Len(trimmedPath)))
       ELSE TRUE

\* validateFolderPath(folderPath).absolutePath of a path that is not blank
absolutePathOf(folderPath) == resolve(trim(folderPath))

\* configManager.js validateFolderPath(folderPath).valid, with the permissions
\* granted: not blank, no invalid character, and the absolute path is an
\* existing directory
validateFolderPath(folderPath) ==
    /\ trim(folderPath) # <<>>
    /\ ~hasInvalidChars(trim(folderPath))
    /\ << absolutePathOf(folderPath) >> \in DOMAIN fs
    /\ fs[<< absolutePathOf(folderPath) >>].kind = "dir"

\* the position of x in list, 0 when absent (Array.prototype.indexOf)
indexOf(list, x) ==
    IF includes(list, x) THEN CHOOSE i \in 1..Len(list) : list[i] = x /\ \A j \in 1..(i - 1) : list[j] # x
    ELSE 0

\* the paths given to --add and --remove: absolute, with a trailing separator,
\* with a blank in front, relative to the working directory, of a folder that
\* does not exist, and empty
PathArgs ==
    { R1, R2, R3, <<>>,
      R1 \o <<"\\">>,
      <<" ">> \o R1,
      <<"r","2">> }

\* the paths given to --update
UpdateArgs == { R1, R2, R3, <<"f",":","/","r","2">> }

\* what the cleaner and the command line leave alone in the configuration manager
cleanerVars == <<variant, config, folders, retentionDays, forceDelete, now, fs, trash, trashDirs, pc,
                 folderIdx, stack, report, cur, mv, moveResult, faults, hist, cli, clf, cz>>

\* the record of a call: its arguments, the folder list it loaded, its result
Called(op, arg, arg2, success) ==
    [op |-> op, arg |-> arg, arg2 |-> arg2, before |-> loadConfig(cfgFile), success |-> success]

AddFolder_Rejected ==
    /\ pc = "config"
    /\ \E folderPath \in PathArgs :
        /\ (~validateFolderPath(folderPath) \/ includes(loadConfig(cfgFile), absolutePathOf(folderPath)))
        /\ cm' = [cm EXCEPT !.last = Called("add", folderPath, <<>>, FALSE)]
    /\ UNCHANGED <<cfgFile, cleanerVars>>

\* addFolder without the test for a path that is configured already
AddFolder_Saved_Again ==
    /\ pc = "config"
    /\ \E folderPath \in PathArgs :
        /\ validateFolderPath(folderPath)
        /\ cfgFile' = Save(cfgFile, Append(loadConfig(cfgFile), absolutePathOf(folderPath)))
        /\ cm' = [cm EXCEPT !.last = Called("add", folderPath, <<>>, TRUE)]
    /\ UNCHANGED cleanerVars

AddFolder_Saved ==
    /\ pc = "config"
    /\ \E folderPath \in PathArgs :
        /\ validateFolderPath(folderPath)
        /\ ~includes(loadConfig(cfgFile), absolutePathOf(folderPath))
        /\ cfgFile' = Save(cfgFile, Append(loadConfig(cfgFile), absolutePathOf(folderPath)))
        /\ cm' = [cm EXCEPT !.last = Called("add", folderPath, <<>>, TRUE)]
    /\ UNCHANGED cleanerVars

\* removeFolder: the path that is looked up in the list
removeTarget(folderPath) == IF isAbsolute(folderPath) THEN folderPath ELSE joinCwd(folderPath)

RemoveFolder_Missing ==
    /\ pc = "config"
    /\ \E folderPath \in PathArgs :
        /\ indexOf(loadConfig(cfgFile), removeTarget(folderPath)) = 0
        /\ cm' = [cm EXCEPT !.last = Called("remove", folderPath, <<>>, FALSE)]
    /\ UNCHANGED <<cfgFile, cleanerVars>>

RemoveFolder_Saved ==
    /\ pc = "config"
    /\ \E folderPath \in PathArgs :
        LET list == loadConfig(cfgFile)
            index == indexOf(list, removeTarget(folderPath))
        IN  /\ index # 0
            /\ cfgFile' = Save(cfgFile, SubSeq(list, 1, index - 1) \o SubSeq(list, index + 1, Len(list)))
            /\ cm' = [cm EXCEPT !.last = Called("remove", folderPath, <<>>, TRUE)]
    /\ UNCHANGED cleanerVars

\* updateFolder passes all its checks
updateAccepted(list, oldPath, newPath) ==
    /\ validateFolderPath(oldPath)
    /\ indexOf(list, absolutePathOf(oldPath)) # 0
    /\ validateFolderPath(newPath)
    /\ ~(includes(list, absolutePathOf(newPath)) /\ absolutePathOf(newPath) # absolutePathOf(oldPath))

UpdateFolder_Rejected ==
    /\ pc = "config"
    /\ \E oldPath \in UpdateArgs, newPath \in UpdateArgs :
        /\ ~updateAccepted(loadConfig(cfgFile), oldPath, newPath)
        /\ cm' = [cm EXCEPT !.last = Called("update", oldPath, newPath, FALSE)]
    /\ UNCHANGED <<cfgFile, cleanerVars>>

UpdateFolder_Saved ==
    /\ pc = "config"
    /\ \E oldPath \in UpdateArgs, newPath \in UpdateArgs :
        LET list == loadConfig(cfgFile) IN
        /\ updateAccepted(list, oldPath, newPath)
        /\ cfgFile' = Save(cfgFile, [list EXCEPT ![indexOf(list, absolutePathOf(oldPath))] = absolutePathOf(newPath)])
        /\ cm' = [cm EXCEPT !.last = Called("update", oldPath, newPath, TRUE)]
    /\ UNCHANGED cleanerVars

ClearAllFolders ==
    /\ pc = "config"
    /\ cfgFile' = Save(cfgFile, <<>>)
    /\ cm' = [cm EXCEPT !.last = Called("configclear", <<>>, <<>>, TRUE)]
    /\ UNCHANGED cleanerVars

(***************************************************************************)
(* Command line entry (main)                                               *)
(***************************************************************************)
\* The longest command line the runs are started with.
MaxArgs == 3

\* the words of process.argv the runs use
Words == {"--clear", "-c", "--force", "-f", "-y"}

Argvs == UNION { [1..n -> Words] : n \in 0..MaxArgs }

\* what the operator may type at the confirmation prompt
Answers == { <<"y">>, <<"Y">>, <<"n">>, <<>>, <<"y","e","s">> }

\* parseArguments: one pass of the loop over the arguments
parseArg(result, arg) ==
    LET cleared == IF arg \in {"--clear", "-c"} THEN [result EXCEPT !.action = "clear"] ELSE result
        forced == IF arg \in {"--force", "-f"} THEN [cleared EXCEPT !.force = TRUE] ELSE cleared
    IN  IF arg = "-y" THEN [forced EXCEPT !.yes = TRUE] ELSE forced

RECURSIVE parseFrom(_, _, _)
parseFrom(args, i, result) ==
    IF i > Len(args) THEN result ELSE parseFrom(args, i + 1, parseArg(result, args[i]))

\* parseArguments; result.retentionDays starts as config.retentionDays
parseArguments(args, days) == parseFrom(args, 1, InitialParams(days))

\* process.exit(code)
exit(code) == [cli EXCEPT !.exitCode = code]

\* what main leaves alone until it calls executeCleanup
idleCleaner == <<variant, config, now, fs, trash, trashDirs, folderIdx, stack, report, cur, mv,
                 moveResult, faults, hist, cfgFile, cm, clf, cz>>

\* case 'help': showHelp and exit
Main_Help ==
    /\ pc = "main"
    /\ cli.params.action = "help"
    /\ cli' = exit(0)
    /\ pc' = "exit"
    /\ UNCHANGED <<folders, retentionDays, forceDelete, idleCleaner>>

\* case 'clear' with no configured folder: exit(1)
Main_NoFolders ==
    /\ pc = "main"
    /\ cli.params.action = "clear"
    /\ Len(getAllFolders(cfgFile)) = 0
    /\ cli' = exit(1)
    /\ pc' = "exit"
    /\ UNCHANGED <<folders, retentionDays, forceDelete, idleCleaner>>

\* case 'clear', params.force && !params.yes: the warning and the question
Main_Confirm ==
    /\ pc = "main"
    /\ cli.params.action = "clear"
    /\ Len(getAllFolders(cfgFile)) # 0
    /\ cli.params.force /\ ~cli.params.yes
    /\ cli' = [cli EXCEPT !.asked = TRUE]
    /\ pc' = "prompt"
    /\ UNCHANGED <<folders, retentionDays, forceDelete, idleCleaner>>

\* the answer is y or Y: executeCleanup(configFolders, params.retentionDays, true)
Main_Answer_Yes ==
    /\ pc = "prompt"
    /\ \E answer \in Answers :
        /\ toLowerCase(answer) = <<"y">>
        /\ cli' = [cli EXCEPT !.answered = TRUE, !.answer = answer, !.called = TRUE]
    /\ folders' = getAllFolders(cfgFile)
    /\ retentionDays' = cli.params.retentionDays
    /\ forceDelete' = TRUE
    /\ pc' = "start"
    /\ UNCHANGED idleCleaner

\* Main_Answer_Other with the cancellation left out: the forced run starts whatever the answer
Main_Answer_Other_Proceeds ==
    /\ pc = "prompt"
    /\ \E answer \in Answers :
        /\ toLowerCase(answer) # <<"y">>
        /\ cli' = [cli EXCEPT !.answered = TRUE, !.answer = answer, !.called = TRUE]
    /\ folders' = getAllFolders(cfgFile)
    /\ retentionDays' = cli.params.retentionDays
    /\ forceDelete' = TRUE
    /\ pc' = "start"
    /\ UNCHANGED idleCleaner

\* any other answer: the operation is cancelled, exit(0)
Main_Answer_Other ==
    /\ pc = "prompt"
    /\ \E answer \in Answers :
        /\ toLowerCase(answer) # <<"y">>
        /\ cli' = [cli EXCEPT !.answered = TRUE, !.answer = answer, !.exitCode = 0]
    /\ pc' = "exit"
    /\ UNCHANGED <<folders, retentionDays, forceDelete, idleCleaner>>

\* case 'clear', params.force with -y: executeCleanup(configFolders, params.retentionDays, true)
Main_Force ==
    /\ pc = "main"
    /\ cli.params.action = "clear"
    /\ Len(getAllFolders(cfgFile)) # 0
    /\ cli.params.force /\ cli.params.yes
    /\ cli' = [cli EXCEPT !.called = TRUE]
    /\ folders' = getAllFolders(cfgFile)
    /\ retentionDays' = cli.params.retentionDays
    /\ forceDelete' = TRUE
    /\ pc' = "start"
    /\ UNCHANGED idleCleaner

\* case 'clear' without --force: executeCleanup(configFolders, params.retentionDays)
Main_Clear ==
    /\ pc = "main"
    /\ cli.params.action = "clear"
    /\ Len(getAllFolders(cfgFile)) # 0
    /\ ~cli.params.force
    /\ cli' = [cli EXCEPT !.called = TRUE]
    /\ folders' = getAllFolders(cfgFile)
    /\ retentionDays' = cli.params.retentionDays
    /\ forceDelete' = FALSE
    /\ pc' = "start"
    /\ UNCHANGED idleCleaner

\* executeCleanup returned: the summary is printed and the process ends
Main_Finished ==
    /\ cli.called
    /\ pc = "done"
    /\ cli' = exit(0)
    /\ pc' = "exit"
    /\ UNCHANGED <<folders, retentionDays, forceDelete, idleCleaner>>

\* executeCleanup threw: main().catch logs the error and exits with 1
Main_Failed ==
    /\ cli.called
    /\ pc = "threw"
    /\ cli' = exit(1)
    /\ pc' = "exit"
    /\ UNCHANGED <<folders, retentionDays, forceDelete, idleCleaner>>

(***************************************************************************)
(* The classifier functions called on their own                            *)
(***************************************************************************)
\* the earliest isAllowedExtension: the list is searched for the extension only
isAllowedExtension_Earliest(fileName) ==
    LET ext == extname(fileName) IN
    includes(config.allowedExtensions, SubSeq(ext, 2, Len(ext)))

\* the earliest isExpired, after fs.statSync returned stats
isExpired_Earliest(stats, days) ==
    LET fileAgeMs == now - stats.birthtimeMs
        retentionMs == days * 24 * 60 * 60 * 1000
    IN  fileAgeMs > retentionMs

\* the catch clause of the earliest isFileInUse
inUseOnError_Earliest(errorCode) == TRUE

\* file names the functions are called with
ClassifierNames ==
    { <<"P",".","t">>, <<"p",".","t">>, <<"p",".","t",".","b">>, <<"x","p",".","t">>,
      <<"a",".","t">>, <<"a",".","T">>, <<"a">>, <<".","t">>, <<"a",".">>,
      <<"a",".","b",".","t">>, <<".","a",".","t">> }

\* error.code of a failed open; "" stands for an error without a code
ErrorCodes ==
    { "EBUSY", "EAGAIN", "ETXTBSY", "EMFILE", "ENFILE", "ESHUTDOWN", "EPIPE",
      "EACCES", "EPERM", "ENOENT", "EIO", "EISDIR", "" }

\* birthtimeMs and mtimeMs of the files isExpired is called on; 0 also stands
\* for a timestamp that is missing (stats.birthtimeMs || 0)
Timestamps ==
    { 0, now - 7 * DayMs - 1, now - 7 * DayMs, now - 7 * DayMs + 1, now - DayMs, now }

ClassifierConfigs ==
    { [allowedExtensions |-> a, protectedFiles |-> p,
       enableCompression |-> FALSE, deleteAfterCompression |-> FALSE] :
        a \in { <<EXT_T>>, <<STAR>>, <<EXT_T, <<>>>>, << <<"b">>, STAR >> },
        p \in { << <<"p",".","t">> >>, << <<"X",".","y">>, <<"P",".","T">> >> } }

\* what a call of a classifier function leaves alone
classifierFrame ==
    <<variant, config, folders, retentionDays, forceDelete, now, fs, trash, trashDirs, pc,
      folderIdx, stack, report, cur, mv, moveResult, faults, hist, cli, cfgFile, cm, cz>>

Call_isProtectedFile ==
    /\ pc = "classify"
    /\ \E fileName \in ClassifierNames :
        clf' = [NoClassifierCall EXCEPT !.variant = clf.variant, !.fn = "isProtectedFile",
                                        !.fileName = fileName, !.result = isProtectedFile(fileName)]
    /\ UNCHANGED classifierFrame

Call_isAllowedExtension ==
    /\ pc = "classify"
    /\ \E fileName \in ClassifierNames :
        clf' = [NoClassifierCall EXCEPT !.variant = clf.variant, !.fn = "isAllowedExtension",
                                        !.fileName = fileName,
                                        !.result = IF clf.variant = "earliest"
                                                   THEN isAllowedExtension_Earliest(fileName)
                                                   ELSE isAllowedExtension(fileName)]
    /\ UNCHANGED classifierFrame

\* isExpired with its fs.statSync: a stat that throws gives false
Call_isExpired ==
    /\ pc = "classify"
    /\ \E statThrows \in BOOLEAN, birth \in Timestamps, mtime \in Timestamps, days \in {0, 1, 7} :
        LET stats == [birthtimeMs |-> birth, mtimeMs |-> mtime] IN
        clf' = [NoClassifierCall EXCEPT !.variant = clf.variant, !.fn = "isExpired",
                                        !.statThrows = statThrows,
                                        !.birthtimeMs = birth, !.mtimeMs = mtime, !.days = days,
                                        !.result = IF statThrows THEN FALSE
                                                   ELSE IF clf.variant = "earliest"
                                                        THEN isExpired_Earliest(stats, days)
                                                        ELSE isExpired(stats, days)]
    /\ UNCHANGED classifierFrame

\* isFileInUse: every open succeeds, or one throws an error with the code
Call_isFileInUse ==
    /\ pc = "classify"
    /\ \E opened \in BOOLEAN, errorCode \in ErrorCodes :
        clf' = [NoClassifierCall EXCEPT !.variant = clf.variant, !.fn = "isFileInUse",
                                        !.opened = opened,
                                        !.errorCode = IF opened THEN "" ELSE errorCode,
                                        !.result = IF opened THEN FALSE
                                                   ELSE IF clf.variant = "earliest"
                                                        THEN inUseOnError_Earliest(errorCode)
                                                        ELSE inUseOnError(errorCode)]
    /\ UNCHANGED classifierFrame

(***************************************************************************)
(* The run                                                                 *)
(***************************************************************************)
Next ==
    \/ ExecuteCleanup_Guard
    \/ ExecuteCleanup_WalkFolder
    \/ ExecuteCleanup_MissingFolder
    \/ ExecuteCleanup_UnlistableFolder
    \/ CleanFolder_Protected
    \/ CleanFolder_StatError
    \/ CleanFolder_Descend
    \/ CleanFolder_DescendUnlistable
    \/ CleanFolder_NotAllowed
    \/ CleanFolder_NotExpired
    \/ CleanFolder_ExpiredStatError
    \/ CleanFolder_Eligible
    \/ CleanFolder_Return
    \/ IsFileInUse_Opened
    \/ IsFileInUse_Error
    \/ DeleteFile_Removed
    \/ DeleteFile_Error
    \/ EnsureDirectory_Error
    \/ MoveFile_Zip_Moved
    \/ MoveFile_Zip_Error
    \/ MoveFile_Begin
    \/ MoveFile_ReadError
    \/ MoveFile_SourceHash
    \/ MoveFile_HashError
    \/ MoveFile_Write
    \/ MoveFile_WriteError
    \/ MoveFile_TargetMissing
    \/ MoveFile_SizeMismatch
    \/ MoveFile_TargetReadError
    \/ MoveFile_SizeOk
    \/ MoveFile_HashMismatch
    \/ MoveFile_HashOk
    \/ MoveFile_RemoveSource
    \/ MoveFile_RemoveSourceError
    \/ CleanFolder_MoveResult
    \/ ExecuteCleanup_Return
    \/ CompressDirectory_Done
    \/ CompressDirectory_Error

Spec == Init /\ [][Next]_vars

(***************************************************************************)
(* A run started from the command line                                     *)
(***************************************************************************)
\* The order of the sections in the template saveConfig writes
TemplateLayout ==
    <<"retentionDays", "allowedExtensions", "protectedFiles", "logConfig", "moveConfig", "folders">>

\* The order of the sections in the README's sample configuration
ReadmeLayout ==
    <<"retentionDays", "allowedExtensions", "protectedFiles", "logConfig", "folders", "moveConfig">>

\* Hand-edited files: the folder list first, or none yet
FoldersFirstLayout ==
    <<"folders", "retentionDays", "allowedExtensions", "protectedFiles", "logConfig", "moveConfig">>

NoFoldersLayout ==
    <<"retentionDays", "allowedExtensions", "protectedFiles", "logConfig", "moveConfig">>

SectionOf(key, days, extensions, protected, list) ==
    CASE key = "retentionDays" -> Section(key, "scalar", Num(days))
      [] key = "allowedExtensions" -> Section(key, "block", List(extensions))
      [] key = "protectedFiles" -> Section(key, "block", List(protected))
      [] key = "logConfig" -> Section(key, "block", Map(DefaultLogConfig))
      [] key = "moveConfig" ->
            Section(key, "block", Map(<< <<"targetDirectory", "trash">>, <<"enableCompression", "true">> >>))
      [] key = "folders" -> newFoldersSection(list)

FileOf(layout, days, extensions, protected, list) ==
    [exists |-> TRUE,
     sections |-> [i \in 1..Len(layout) |-> SectionOf(layout[i], days, extensions, protected, list)]]

InitMain ==
    /\ variant = "verify"
    /\ config \in { c \in Configs("verify") : ~c.enableCompression }
    /\ \E list \in { <<>>, <<R1, R2>>, <<R3, R2>>, <<R1, WinDir>> } :
        cfgFile = FileOf(TemplateLayout, 1, config.allowedExtensions, config.protectedFiles, list)
    /\ \E argv \in Argvs :
        cli = [NoCli EXCEPT !.params = parseArguments(argv, loadFullConfig(cfgFile)["retentionDays"].num)]
    /\ cm = NoCm
    /\ clf = NoClassifierCall
    /\ cz = NoCompress
    /\ folders = <<>>
    /\ retentionDays = 0
    /\ forceDelete = FALSE
    /\ now = 3 * DayMs
    /\ fs = Tree(now)
    /\ trash = <<>>
    /\ trashDirs = {<<>>}
    /\ pc = "main"
    /\ folderIdx = 1
    /\ stack = <<>>
    /\ report = EmptyReport
    /\ cur = <<>>
    /\ mv = NoMove
    /\ moveResult = NoResult
    /\ faults = 0
    /\ hist = EmptyHist

NextMain ==
    \/ Main_Help
    \/ Main_NoFolders
    \/ Main_Confirm
    \/ Main_Answer_Yes
    \/ Main_Answer_Other
    \/ Main_Force
    \/ Main_Clear
    \/ Main_Finished
    \/ Main_Failed
    \/ ExecuteCleanup_Guard
    \/ ExecuteCleanup_WalkFolder
    \/ ExecuteCleanup_MissingFolder
    \/ ExecuteCleanup_UnlistableFolder
    \/ CleanFolder_Protected
    \/ CleanFolder_StatError
    \/ CleanFolder_Descend
    \/ CleanFolder_DescendUnlistable
    \/ CleanFolder_NotAllowed
    \/ CleanFolder_NotExpired
    \/ CleanFolder_ExpiredStatError
    \/ CleanFolder_Eligible
    \/ CleanFolder_Return
    \/ IsFileInUse_Opened
    \/ IsFileInUse_Error
    \/ DeleteFile_Removed
    \/ DeleteFile_Error
    \/ EnsureDirectory_Error
    \/ MoveFile_Begin
    \/ MoveFile_ReadError
    \/ MoveFile_SourceHash
    \/ MoveFile_HashError
    \/ MoveFile_Write
    \/ MoveFile_WriteError
    \/ MoveFile_TargetMissing
    \/ MoveFile_SizeMismatch
    \/ MoveFile_TargetReadError
    \/ MoveFile_SizeOk
    \/ MoveFile_HashMismatch
    \/ MoveFile_HashOk
    \/ MoveFile_RemoveSource
    \/ MoveFile_RemoveSourceError
    \/ CleanFolder_MoveResult
    \/ ExecuteCleanup_Return

SpecMain == InitMain /\ [][NextMain]_vars

(***************************************************************************)
(* The configuration manager at work on config.yaml                        *)
(***************************************************************************)
ConfigFiles ==
    {NoConfigFile} \cup
    { FileOf(layout, days, <<EXT_T>>, << <<"p",".","t">> >>, list) :
        layout \in {TemplateLayout, ReadmeLayout, FoldersFirstLayout, NoFoldersLayout},
        days \in {0, 30},
        list \in { <<>>, <<R1>> } }

InitConfig ==
    /\ cfgFile \in ConfigFiles
    /\ \E v \in {"splice", "rewrite"} : cm = [variant |-> v, file0 |-> cfgFile, last |-> NoCall]
    /\ cli = NoCli
    /\ clf = NoClassifierCall
    /\ cz = NoCompress
    /\ variant = "verify"
    /\ config \in { c \in Configs("verify") : ~c.enableCompression /\ c.allowedExtensions = <<EXT_T>> }
    /\ folders = <<>>
    /\ retentionDays = 0
    /\ forceDelete = FALSE
    /\ now = 3 * DayMs
    /\ fs = Tree(now)
    /\ trash = <<>>
    /\ trashDirs = {<<>>}
    /\ pc = "config"
    /\ folderIdx = 1
    /\ stack = <<>>
    /\ report = EmptyReport
    /\ cur = <<>>
    /\ mv = NoMove
    /\ moveResult = NoResult
    /\ faults = 0
    /\ hist = EmptyHist

NextConfig ==
    \/ AddFolder_Rejected
    \/ AddFolder_Saved
    \/ RemoveFolder_Missing
    \/ RemoveFolder_Saved
    \/ UpdateFolder_Rejected
    \/ UpdateFolder_Saved
    \/ ClearAllFolders

SpecConfig == InitConfig /\ [][NextConfig]_vars

(***************************************************************************)
(* The classifier functions over their inputs                              *)
(***************************************************************************)
InitClassifier ==
    /\ \E v \in {"current", "earliest"} : clf = [NoClassifierCall EXCEPT !.variant = v]
    /\ config \in ClassifierConfigs
    /\ now = 10 * DayMs
    /\ pc = "classify"
    /\ variant = "verify"
    /\ cli = NoCli
    /\ cfgFile = NoConfigFile
    /\ cm = NoCm
    /\ cz = NoCompress
    /\ folders = <<>>
    /\ retentionDays = 0
    /\ forceDelete = FALSE
    /\ fs = Tree(now)
    /\ trash = <<>>
    /\ trashDirs = {<<>>}
    /\ folderIdx = 1
    /\ stack = <<>>
    /\ report = EmptyReport
    /\ cur = <<>>
    /\ mv = NoMove
    /\ moveResult = NoResult
    /\ faults = 0
    /\ hist = EmptyHist

NextClassifier ==
    \/ Call_isProtectedFile
    \/ Call_isAllowedExtension
    \/ Call_isExpired
    \/ Call_isFileInUse

SpecClassifier == InitClassifier /\ [][NextClassifier]_vars

(***************************************************************************)
(* compressDirectory on a move target directory                            *)
(***************************************************************************)
\* an archive an earlier run left behind
OldArchive == <<"c","l","e","a","n","u","p","_","o","l","d",".","z","i","p">>

\* the files the move target directory may hold when compressDirectory starts
CompressTrashes ==
    LET all == (<<A_T>> :> TrashFile(<<1, 2>>)) @@
               (<<S_DIR, A_T>> :> TrashFile(<<3>>)) @@
               (<<B_X>> :> TrashFile(<<>>)) @@
               (<<OldArchive>> :> [content |-> <<>>, entries |-> {[name |-> <<A_T>>, content |-> <<9>>]}])
    IN  { [p \in S |-> all[p]] : S \in SUBSET (DOMAIN all) }

InitCompress ==
    /\ variant = "zip"
    /\ config \in { c \in Configs("zip") : c.enableCompression /\ c.allowedExtensions = <<STAR>> }
    /\ folders = <<>>
    /\ retentionDays = 0
    /\ forceDelete = FALSE
    /\ now = 3 * DayMs
    /\ fs = <<>>
    /\ trash \in CompressTrashes
    /\ trashDirs = UNION { dirsOf(dirname(p)) : p \in DOMAIN trash } \cup {<<>>, << <<"e">> >>}
    /\ pc = "cz_start"
    /\ folderIdx = 1
    /\ stack = <<>>
    /\ report = EmptyReport
    /\ cur = <<>>
    /\ mv = NoMove
    /\ moveResult = NoResult
    /\ faults = 0
    /\ hist = [EmptyHist EXCEPT !.trash0 = trash]
    /\ cli = NoCli
    /\ cfgFile = NoConfigFile
    /\ cm = NoCm
    /\ clf = NoClassifierCall
    /\ cz = NoCompress

NextCompress ==
    \/ CompressDirectory_List
    \/ CompressDirectory_Empty
    \/ CompressDirectory_ListFails
    \/ CompressDirectory_Write
    \/ CompressDirectory_WriteFails
    \/ CompressDirectory_Verify
    \/ CompressDirectory_VerifyFails
    \/ CompressDirectory_RemoveFile
    \/ CompressDirectory_RemoveFileFails
    \/ CompressDirectory_RemoveEmptyDirs
    \/ CompressDirectory_Return

SpecCompress == InitCompress /\ [][NextCompress]_vars

(***************************************************************************)
(* Properties                                                              *)
(***************************************************************************)
\* the source trees as they were when the run started
fs0 == Tree(now)

RECURSIVE stackRecords(_)
stackRecords(k) ==
    IF k = 0 THEN <<>> ELSE stackRecords(k - 1) \o stack[k].movedFileList

\* every transfer record made so far, oldest first
AllRecords == report.movedFilesList \o stackRecords(Len(stack))

RECURSIVE stackSkipped(_)
stackSkipped(k) ==
    IF k = 0 THEN 0 ELSE stackSkipped(k - 1) + stack[k].skippedFiles

\* the sum of every skippedFiles counter
AllSkipped == report.skippedFiles + stackSkipped(Len(stack))

\* the three predicates of the classifier, on the file as the run found it
Eligible(p) ==
    /\ isAllowedExtension(lastName(p))
    /\ isExpired(fs0[p], retentionDays)
    /\ ~isProtectedFile(lastName(p))

\* the walker is between two entries: no file is being acted on
BetweenEntries == pc \in {"start", "loop", "walk", "compress", "done", "threw"}

\* C1: in quarantine mode, at every point of the run, the original content of
\* every file is in full at its source path or at a target whose size and
\* checksum have been verified against the source.
C1_ContentAtSourceOrVerifiedTarget ==
    ~forceDelete =>
        \A p \in DOMAIN fs : fs0[p].kind = "file" =>
            \/ fs[p] = fs0[p]
            \/ \E t \in hist.verified :
                   t \in DOMAIN trash /\ trash[t].content = fs0[p].content

\* The verified-copy variant alone keeps the property of C1.
VerifiedCopyKeepsContent == variant = "verify" => C1_ContentAtSourceOrVerifiedTarget

\* C2: whenever a transfer reports success the target holds, byte for byte,
\* the content the source had when the transfer began, and the source is
\* gone; no recorded file is still at its original path.
C2_SuccessMeansMovedIntact ==
    /\ (pc = "mv_ret" /\ moveResult.success) =>
           /\ fs[cur].kind = "none"
           /\ moveResult.targetPath \in DOMAIN trash
           /\ trash[moveResult.targetPath].content = mv.entryContent
    /\ \A i \in 1..Len(AllRecords) : fs[AllRecords[i].sourcePath].kind = "none"

\* the verified copy of the nested file a.t succeeded after an earlier transfer
C2_Witness ==
    /\ pc = "mv_ret" /\ moveResult.success /\ variant = "verify"
    /\ mv.entryContent = <<3>>
    /\ Len(AllRecords) > 0

C4_OnlyEligibleFilesActedOn ==
    /\ \A p \in DOMAIN fs : fs[p].kind # fs0[p].kind =>
           Eligible(p) /\ p \in hist.notInUse
    /\ \A i \in 1..Len(AllRecords) :
           Eligible(AllRecords[i].sourcePath) /\ AllRecords[i].sourcePath \in hist.notInUse
    /\ \A p \in hist.examined :
           (fs0[p].kind = "file" /\ (BetweenEntries \/ p # cur)
              /\ (~Eligible(p) \/ p \notin hist.notInUse)) =>
               p \in hist.skipped /\ fs[p] = fs0[p]
    /\ BetweenEntries => AllSkipped = Cardinality(hist.skipped)

\* a run that moved one file and skipped a protected, a fresh and a busy one
C4_Witness ==
    /\ pc = "done"
    /\ Len(AllRecords) > 0
    /\ <<R2, P_T>> \in hist.skipped
    /\ <<R2, A_T>> \in hist.skipped
    /\ \E p \in hist.probed : p \notin hist.notInUse

\* C5: when the allow-list holds the wildcard and some configured folder
\* trips the guard, executeCleanup throws before any folder is walked: no
\* file of any folder is probed, moved, deleted or written.
C5_GuardThrowsBeforeAnyWalk ==
    guardThrows(folders) =>
        /\ pc \in {"start", "threw"}
        /\ fs = fs0 /\ trash = hist.trash0
        /\ stack = <<>> /\ folderIdx = 1 /\ report = EmptyReport
        /\ hist.examined = {} /\ hist.probed = {}

\* the run threw on its second folder; the first one holds eligible files
C5_Witness ==
    pc = "threw" /\ folders = <<R1, WinDir>> /\ existsSync(<<R1, A_T>>)

\* the system-critical paths the guard is meant to cover: the system drive
\* root, the OS installation directories, the user-profile root and the
\* other drive roots
SystemCriticalPaths ==
    { <<"c",":","\\">>,
      <<"c",":","\\","w","i","n","d","o","w","s">>,
      <<"c",":","\\","s","y","s","t","e","m","3","2">>,
      <<"c",":","\\","p","r","o","g","r","a","m"," ","f","i","l","e","s">>,
      <<"c",":","\\","p","r","o","g","r","a","m"," ","f","i","l","e","s"," ","(","x","8","6",")">>,
      <<"c",":","\\","u","s","e","r","s">>,
      <<"c",":","\\","p","r","o","g","r","a","m","d","a","t","a">>,
      <<"d",":","\\">>,
      <<"e",":","\\">> }

\* folder is critical, or lies below critical (one separator between them)
atOrUnder(folder, critical) ==
    LET f == toLowerCase(folder)
        prefix == IF critical[Len(critical)] = "\\" THEN critical ELSE critical \o <<"\\">>
    IN  f = critical \/ startsWith(f, prefix)

\* C6: with a wildcard allow-list the run is aborted whenever some configured
\* folder is equal to, or nested under, a system-critical path.
C6_GuardAbortsOnEveryCriticalFolder ==
    ( /\ includes(config.allowedExtensions, STAR)
      /\ \E i \in 1..Len(folders) : \E c \in SystemCriticalPaths : atOrUnder(folders[i], c) )
        => pc \in {"start", "threw"}

\* C7: the only error that leaves executeCleanup is the guard's; every other
\* failure ends in a completed report that counts the affected file as
\* skipped, and the run never stops short of its report.
C7_OnlyGuardErrorPropagates ==
    /\ pc = "threw" => guardThrows(folders)
    /\ hist.failed \subseteq hist.skipped
    /\ pc = "done" => report.skippedFiles = Cardinality(hist.skipped)
    /\ pc \notin {"done", "threw"} => ENABLED Next

\* a completed report after a failed copy and an unlistable folder
C7_Witness ==
    /\ pc = "done"
    /\ hist.failed # {}
    /\ hist.unlistable # {}
    /\ report.skippedFiles > 0

\* the records of transfers into the move target directory
Transfers == { i \in 1..Len(AllRecords) : AllRecords[i].targetPath # Null }

\* C8: the target paths of the successful transfers of a run are pairwise
\* distinct, no file that was in the move target directory before is
\* overwritten, and of two files of one name sent to one empty directory
\* the first is stored as name.ext and the second as name_1.ext.
C8_TargetsDistinctNothingOverwritten ==
    /\ \A i \in Transfers : \A j \in Transfers :
           i # j => AllRecords[i].targetPath # AllRecords[j].targetPath
    /\ \A t \in DOMAIN hist.trash0 : t \in DOMAIN trash => trash[t] = hist.trash0[t]
    /\ (hist.trash0 = <<>> /\ hist.cleanupFailed = {}) =>
           \A i \in Transfers : \A j \in Transfers :
               ( /\ i < j
                 /\ AllRecords[i].fileName = A_T /\ AllRecords[j].fileName = A_T
                 /\ dirname(AllRecords[i].targetPath) = dirname(AllRecords[j].targetPath)
                 /\ \A k \in Transfers :
                      (k < j /\ k # i) =>
                          dirname(AllRecords[k].targetPath) # dirname(AllRecords[i].targetPath) )
                   => /\ lastName(AllRecords[i].targetPath) = A_T
                      /\ lastName(AllRecords[j].targetPath) = <<"a","_","1",".","t">>

\* two files named a.t were transferred next to a file a.t of an earlier run
C8_Witness ==
    /\ hist.trash0 # <<>>
    /\ \E i \in Transfers : \E j \in Transfers :
           /\ i < j
           /\ AllRecords[i].targetPath = << <<"a","_","1",".","t">> >>
           /\ AllRecords[j].targetPath = << <<"a","_","2",".","t">> >>
    /\ pc = "done"

\* C9: a file found at any depth below a walked root is transferred to the
\* path formed by its path relative to that root: the directory part of the
\* target equals the directory part of the relative source path.
C9_TargetKeepsRelativeDirectory ==
    \A i \in Transfers :
        dirname(AllRecords[i].targetPath)
            = dirname(relative(<<AllRecords[i].sourcePath[1]>>, AllRecords[i].sourcePath))

\* C10: the liveness probe never changes the probed file.
C10_ProbeLeavesFileUnchanged == [][pc = "probe" => fs' = fs]_vars

\* C12: the archive step is invoked at the end of a run if and only if
\* compression is enabled and at least one file was transferred; its result
\* is in the report, and the report's compression result is null otherwise.
C12_ArchiveIffEnabledAndTransferred ==
    pc = "done" =>
        /\ report.compression.invoked
             <=> (config.enableCompression /\ Len(report.movedFilesList) > 0)
        /\ ~report.compression.invoked => report.compression = NullCompression

\* The move+zip variant alone keeps the property of C12.
MoveZipArchivesWhenDue == variant = "zip" => C12_ArchiveIffEnabledAndTransferred

\* C13: the files packaged into the archive of a run are exactly the files
\* transferred in that run, and what earlier runs left in the move target
\* directory is neither packaged nor deleted.
C13_ArchiveHoldsExactlyThisRunsFiles ==
    (pc = "done" /\ report.compression.invoked /\ report.compression.success) =>
        /\ <<ArchiveName>> \in DOMAIN trash
        /\ { e.name : e \in trash[<<ArchiveName>>].entries }
               = { AllRecords[i].targetPath : i \in Transfers }
        /\ \A p \in DOMAIN hist.trash0 : p \in DOMAIN trash /\ trash[p] = hist.trash0[p]

\* C14: a configured folder that does not exist or cannot be listed adds
\* nothing to the report and the loop goes on to the next folder: at the end
\* of the run every entry of every other configured folder was examined.
C14_MissingFolderIsZeroAndRunContinues ==
    /\ [](pc = "done" =>
            \A i \in 1..Len(folders) :
                (<<folders[i]>> \in DOMAIN fs0 /\ <<folders[i]>> \notin hist.unlistable) =>
                    \A k \in 1..Len(fs0[<<folders[i]>>].entries) :
                        join(<<folders[i]>>, fs0[<<folders[i]>>].entries[k]) \in hist.examined)
    /\ [][ /\ (pc = "loop" /\ folderIdx <= Len(folders)
                 /\ <<folders[folderIdx]>> \notin DOMAIN fs0) => pc' = "loop"
           /\ (pc = "loop" /\ pc' = "loop") =>
                  (report' = report /\ folderIdx' = folderIdx + 1) ]_vars

\* the first folder does not exist and the three entries of the second were examined
C14_Witness ==
    /\ pc = "done"
    /\ folders = <<R3, R2>>
    /\ report.totalFiles = 3
    /\ <<R2, B_X>> \in hist.examined

\* C17: an error while stating or processing one entry adds exactly one to
\* the skipped count and does not end the loop: at the end of the run every
\* sibling of an entry that failed was examined.
C17_EntryErrorSkipsOneAndGoesOn ==
    /\ [](pc = "done" =>
            \A f \in hist.failed :
                \A k \in 1..Len(fs0[dirname(f)].entries) :
                    join(dirname(f), fs0[dirname(f)].entries[k]) \in hist.examined)
    /\ [][hist'.failed # hist.failed =>
            /\ Cardinality(hist'.failed) = Cardinality(hist.failed) + 1
            /\ AllSkipped' = AllSkipped + 1
            /\ pc' = "walk"]_vars

\* the stat of f:\r1\a.t threw and its siblings s and P.t were examined
C17_Witness ==
    /\ pc = "done"
    /\ <<R1, A_T>> \in hist.failed
    /\ ~existsSync(<<R1, S_DIR, A_T>>)
    /\ <<R1, P_T>> \in hist.skipped
    /\ report.skippedFiles = Cardinality(hist.skipped)

\* C18: every subdirectory entry of a walked folder is descended into,
\* whatever its name or extension.
C18_EveryDirectoryIsDescended ==
    pc = "done" =>
        \A d \in hist.examined :
            (fs0[d].kind = "dir" /\ d \notin hist.failed /\ d \notin hist.unlistable) =>
                \A k \in 1..Len(fs0[d].entries) :
                    join(d, fs0[d].entries[k]) \in hist.examined

\* moveFile has started and has not yet produced its result
InTransfer == pc \in {"mv_srchash", "mv_write", "mv_size", "mv_dsthash", "mv_rmsrc"}

\* C19: one file operation at a time: a transfer has returned to the walker
\* before the next entry is examined, nothing is written to the chosen target
\* path between getUniqueFileName and the write, and the configured folders
\* are walked one after the other in configured order.
C19_OneOperationAtATime ==
    /\ [](BetweenEntries =>
            \/ mv.filePath = <<>>
            \/ mv.filePath \in hist.failed
            \/ \E i \in 1..Len(AllRecords) : AllRecords[i].sourcePath = mv.filePath)
    /\ [](pc \in {"mv_srchash", "mv_write"} => mv.uniqueTargetPath \notin DOMAIN trash)
    /\ [](\A p \in hist.examined :
            \E i \in 1..Len(folders) : i <= folderIdx /\ p[1] = folders[i])
    /\ [](stack # <<>> => stack[1].folderPath = <<folders[folderIdx]>>)
    /\ [][InTransfer =>
            /\ hist'.examined = hist.examined /\ cur' = cur /\ stack' = stack
            /\ pc' \in {"mv_write", "mv_size", "mv_dsthash", "mv_rmsrc", "mv_ret"}]_vars

\* the second verified copy of the run is about to write its target
C19_Witness ==
    /\ pc = "mv_write"
    /\ variant = "verify"
    /\ Len(AllRecords) = 1
    /\ mv.uniqueTargetPath = << <<"a","_","1",".","t">> >>
    /\ folderIdx = 1

\* C20: with forceDelete no file is created or changed in the move target
\* directory and every record has a null target path; without it no file
\* leaves its folder except by a transfer and every record has a target path.
C20_ModesAreDisjoint ==
    /\ forceDelete =>
           /\ trash = hist.trash0
           /\ trashDirs = {<<>>}
           /\ \A i \in 1..Len(AllRecords) : AllRecords[i].targetPath = Null
    /\ ~forceDelete =>
           /\ \A i \in 1..Len(AllRecords) : AllRecords[i].targetPath # Null
           /\ \A p \in DOMAIN fs : fs[p].kind # fs0[p].kind =>
                  \/ \E i \in 1..Len(AllRecords) : AllRecords[i].sourcePath = p
                  \/ (pc = "mv_ret" /\ cur = p /\ moveResult.success)

\* a run that deleted two files next to a file left by an earlier run
C20_Witness ==
    /\ forceDelete
    /\ pc = "done"
    /\ Len(AllRecords) >= 2
    /\ hist.trash0 # <<>>

C16_ForceClearsWithoutPrompt ==
    (cli.params.action = "clear" /\ cli.params.force) => ~cli.asked

\* C15: whatever folder operations were saved, every key of config.yaml other than
\* folders (retentionDays, allowedExtensions, protectedFiles, logConfig, moveConfig)
\* reads back with the value it had in the file the manager started from.
C15_SaveChangesOnlyFolders ==
    cm.file0.exists =>
        \A k \in Keys \ {"folders"} : loadFullConfig(cfgFile)[k] = loadFullConfig(cm.file0)[k]

\* the target paths taken before the transfer in flight resolved its own: the files
\* of earlier runs, the targets of this run's earlier transfers, and the targets a
\* failed cleanup left behind
TakenTargets ==
    DOMAIN hist.trash0 \cup { AllRecords[i].targetPath : i \in Transfers } \cup hist.cleanupFailed

\* C26: the path a transfer resolves as its target is none that was taken before,
\* and no step of a transfer, failed or successful, removes or changes a file of
\* the move target directory other than the file at that resolved path.
C26_TransferTouchesOnlyItsOwnTarget ==
    /\ [](InTransfer => mv.uniqueTargetPath \notin TakenTargets)
    /\ [][pc \notin {"compress", "done"} =>
            \A p \in DOMAIN trash :
                \/ (p \in DOMAIN trash' /\ trash'[p] = trash[p])
                \/ (InTransfer /\ p = mv.uniqueTargetPath)]_vars

\* a transfer next to a file of an earlier run failed after its target a_1.t was
\* written, and the cleanup has removed that target
C26_Witness ==
    /\ variant = "verify"
    /\ pc = "mv_ret"
    /\ ~moveResult.success
    /\ hist.trash0 # <<>>
    /\ mv.uniqueTargetPath = << <<"a","_","1",".","t">> >>
    /\ mv.sourceHash # <<>>
    /\ mv.uniqueTargetPath \notin DOMAIN trash
    /\ trash = hist.trash0

\* the directory entries the walk went into
Descended == { p \in hist.examined : fs0[p].kind = "dir" /\ p \notin hist.skipped }

\* p lies below the folder
below(p, folderPath) == Len(p) > Len(folderPath) /\ SubSeq(p, 1, Len(folderPath)) = folderPath

\* C27: in every walk result and in the report, movedFiles is the number of
\* transfer records and totalFiles = movedFiles + skippedFiles + the number of
\* directories descended into; the report grows by exactly the result of each
\* configured folder's walk.
C27_CountersAddUp ==
    /\ [](\A i \in 1..Len(stack) : stack[i].movedFiles = Len(stack[i].movedFileList))
    /\ [](report.movedFiles = Len(report.movedFilesList))
    /\ []((pc = "walk" /\ stack # <<>>) =>
            Top.totalFiles = Top.movedFiles + Top.skippedFiles
                             + Cardinality({ p \in Descended : below(p, Top.folderPath) }))
    /\ []((pc \in {"loop", "compress", "done"}) =>
            report.totalFiles = report.movedFiles + report.skippedFiles + Cardinality(Descended))
    /\ [][(pc = "walk" /\ pc' = "loop") =>
            /\ report'.totalFiles = report.totalFiles + Top.totalFiles
            /\ report'.movedFiles = report.movedFiles + Top.movedFiles
            /\ report'.skippedFiles = report.skippedFiles + Top.skippedFiles
            /\ report'.movedFilesList = report.movedFilesList \o Top.movedFileList]_vars

\* a finished run over two folders that moved files, skipped files and went into
\* a directory
C27_Witness ==
    /\ pc = "done"
    /\ folders = <<R1, R2>>
    /\ report.movedFiles >= 2
    /\ report.skippedFiles >= 2
    /\ Cardinality(Descended) >= 1
    /\ report.totalFiles = 7

\* the error codes of contention
ContentionCodes == {"EBUSY", "EAGAIN", "ETXTBSY", "EMFILE", "ENFILE", "ESHUTDOWN", "EPIPE"}

\* C21: a failed probe is classified by its error code: a contention code gives
\* in use, EACCES, EPERM and ENOENT give not in use, every other or missing
\* code gives in use.
C21_ProbeErrorClassifiedByCode ==
    (clf.fn = "isFileInUse" /\ ~clf.opened) =>
        /\ clf.errorCode \in ContentionCodes => clf.result
        /\ clf.errorCode \in {"EACCES", "EPERM", "ENOENT"} => ~clf.result
        /\ clf.errorCode \notin ContentionCodes \cup {"EACCES", "EPERM", "ENOENT"} => clf.result

\* the isFileInUse of cleaner.js, in both of its bodies, classifies so
CurrentProbeClassifiesByCode == clf.variant = "current" => C21_ProbeErrorClassifiedByCode

\* the part of a name after its last dot; empty for a name without a dot, for
\* a name whose only dot comes first, and for a name that ends with its dot
suffixAfterLastDot(name) ==
    LET dots == { i \in 2..Len(name) : name[i] = "." } IN
    IF dots = {} THEN <<>>
    ELSE LET last == CHOOSE i \in dots : \A j \in dots : j <= i IN
         SubSeq(name, last + 1, Len(name))

\* C22: isAllowedExtension is true for every name when the list holds `*`, and
\* otherwise exactly when the list holds the part after the last dot of the
\* name, compared with case; a name without extension needs the empty string.
C22_AllowedByWildcardOrExactExtension ==
    clf.fn = "isAllowedExtension" =>
        clf.result = ( \/ includes(config.allowedExtensions, STAR)
                       \/ includes(config.allowedExtensions, suffixAfterLastDot(clf.fileName)) )

\* the isAllowedExtension of cleaner.js, in both of its bodies, decides so
CurrentAllowsByExtension == clf.variant = "current" => C22_AllowedByWildcardOrExactExtension

\* the same character, or the two cases of one letter
sameLetter(a, b) ==
    a = b \/ \E i \in 1..26 : {a, b} = {UpperChars[i], LowerChars[i]}

\* C23: isProtectedFile(name) is true exactly when some entry of the protected
\* list has the length of name and, position by position, the same characters
\* up to the case of letters; nothing shorter or longer matches.
C23_ProtectedIffEqualIgnoringCase ==
    clf.fn = "isProtectedFile" =>
        clf.result =
            (\E i \in 1..Len(config.protectedFiles) :
                LET entry == config.protectedFiles[i] IN
                /\ Len(entry) = Len(clf.fileName)
                /\ \A k \in 1..Len(entry) : sameLetter(entry[k], clf.fileName[k]))

\* p.t is protected through the entry P.T
C23_Witness ==
    /\ clf.fn = "isProtectedFile"
    /\ clf.fileName = <<"p",".","t">>
    /\ config.protectedFiles = << <<"X",".","y">>, <<"P",".","T">> >>
    /\ clf.result

\* C24: with retentionDays = 0 isExpired is true for every file, whatever its
\* timestamps and whether or not fs.statSync succeeds.
C24_ZeroRetentionAlwaysExpired ==
    (clf.fn = "isExpired" /\ clf.days = 0) => clf.result

\* C25: with retentionDays > 0 and readable metadata, isExpired is true exactly
\* when now minus the newer of birthtimeMs and mtimeMs exceeds
\* retentionDays * 86400000.
C25_ExpiredIffOlderThanRetention ==
    (clf.fn = "isExpired" /\ clf.days > 0 /\ ~clf.statThrows) =>
        clf.result = (now - Max(clf.birthtimeMs, clf.mtimeMs) > clf.days * 86400000)

\* the isExpired of cleaner.js, in both of its bodies, decides so
CurrentExpiresByNewestTimestamp == clf.variant = "current" => C25_ExpiredIffOlderThanRetention

\* the archive on disk holds every file of fileList with its content
archiveHoldsFileList(t) ==
    /\ <<ArchiveName>> \in DOMAIN t
    /\ \A q \in cz.fileList :
         [name |-> q, content |-> cz.trashBefore[q].content] \in t[<<ArchiveName>>].entries

\* C28: compressDirectory removes a file of the move target directory only
\* when deleteAfterCompression is on, the archive with every listed file has
\* been written and every entry of it has been read back; when it returns a
\* failure, or deleteAfterCompression is off, every file that was there is
\* still there unchanged; and the archive, once written, is never removed.
C28_FilesGoOnlyAfterVerifiedArchive ==
    /\ [][\A p \in DOMAIN trash :
            p \notin DOMAIN trash' =>
                /\ config.deleteAfterCompression
                /\ p \in cz.fileList
                /\ cz.verified
                /\ archiveHoldsFileList(trash)]_vars
    /\ [](pc = "cz_done" /\ (~report.compression.success \/ ~config.deleteAfterCompression) =>
            \A p \in DOMAIN cz.trashBefore : p \in DOMAIN trash /\ trash[p] = cz.trashBefore[p])
    /\ [][(<<ArchiveName>> \in DOMAIN trash) => (<<ArchiveName>> \in DOMAIN trash')]_vars

\* a successful compression with deleteAfterCompression: the earlier archive
\* and a quarantined file are gone, one file whose removal threw is left, and
\* the new archive is there
C28_Witness ==
    /\ pc = "cz_done"
    /\ report.compression.success
    /\ config.deleteAfterCompression
    /\ cz.fileList = {<<A_T>>, <<S_DIR, A_T>>, <<OldArchive>>}
    /\ DOMAIN trash = {<<ArchiveName>>, <<S_DIR, A_T>>}
    /\ trashDirs = {<<>>, <<S_DIR>>}

NoDuplicates(list) == \A i, j \in 1..Len(list) : list[i] = list[j] => i = j

\* C29: the configured folder list never holds a path twice, whatever
\* addFolder, updateFolder, removeFolder and clearAllFolders are called with;
\* an addFolder of a path that is in the list, and an updateFolder to a path
\* that is in the list at another position, return failure and leave the list
\* as it was.
C29_FolderListStaysDuplicateFree ==
    /\ [](NoDuplicates(loadConfig(cfgFile)))
    /\ [][(cm'.last.op = "add" /\ includes(loadConfig(cfgFile), absolutePathOf(cm'.last.arg))) =>
            (~cm'.last.success /\ loadConfig(cfgFile') = loadConfig(cfgFile))]_vars
    /\ [][(/\ cm'.last.op = "update"
           /\ includes(loadConfig(cfgFile), absolutePathOf(cm'.last.arg2))
           /\ absolutePathOf(cm'.last.arg2) # absolutePathOf(cm'.last.arg)) =>
            (~cm'.last.success /\ loadConfig(cfgFile') = loadConfig(cfgFile))]_vars

\* two folders are configured and an addFolder of the first, written with a
\* trailing separator, was refused
C29_Witness ==
    /\ cm.last.op = "add"
    /\ cm.last.arg = R1 \o <<"\\">>
    /\ ~cm.last.success
    /\ loadConfig(cfgFile) = <<R2, R1>>
    /\ cm.last.before = <<R2, R1>>

\* C30: a removeFolder called with the argument of the addFolder that has just
\* succeeded succeeds too, and the folder list is again what it was before
\* the addFolder.
C30_RemoveUndoesAdd ==
    [][(/\ cm.last.op = "add"
        /\ cm.last.success
        /\ cm'.last.op = "remove"
        /\ cm'.last.arg = cm.last.arg) =>
            (cm'.last.success /\ loadConfig(cfgFile') = cm.last.before)]_vars

\* the same for an argument that is its own absolute path, with config.yaml
\* in place
NormalizedRemoveUndoesAdd ==
    [][(/\ cm.last.op = "add"
        /\ cm.last.success
        /\ cm.file0.exists
        /\ cm.last.arg = absolutePathOf(cm.last.arg)
        /\ cm'.last.op = "remove"
        /\ cm'.last.arg = cm.last.arg) =>
            (cm'.last.success /\ loadConfig(cfgFile') = cm.last.before)]_vars

====
